---- MODULE Spec2Model ----
(***************************************************************************)
(* A model of the touchdown-prediction backend: the feature builder        *)
(* (app/ml/feature_engineering.py), the prediction store                   *)
(* (app/services/prediction_service.py), the batch tracker                 *)
(* (app/services/batch_tracking.py) and the weekly batch script            *)
(* (update_weekly.py, generate_predictions.py).                            *)
(*                                                                         *)
(* Each subsystem has its own variables and its own specification; a       *)
(* specification leaves the other subsystems' variables at their idle      *)
(* values.                                                                 *)
(***************************************************************************)
EXTENDS Integers, Sequences, FiniteSets, TLC

VARIABLES
    \* ---- feature builder (SpecFeat) ----
    fbLogsA,     \* a game-log list handed to the feature builder
    fbLogsB,     \* a second list, edited only in entries with week >= fbWeek
    fbWeek,      \* next_week, the week to predict
    fbYear,      \* current_year of extract_features_for_current_season
    fbPc,        \* "input" | "edited" | "built"
    fbOut,       \* the results computed by Build; the loop record under SpecScore
    \* ---- prediction store (SpecStore) ----
    predictions, \* the committed rows of the predictions table
    nextId,      \* the table's autoincrement counter
    sess,        \* per database session: its caller and its uncommitted work
    writeLog,    \* what each prediction write reported to its caller
    overwrites,  \* the commits that changed the values of a stored row
    firstStored, \* per key, the values of the first row committed for it
    calls,       \* the number of service calls made so far
    \* ---- weekly batch (SpecBatch, SpecRace) ----
    schedule,    \* the schedule table
    gameLogs,    \* the game_logs table
    sportsbook_odds,       \* the sportsbook_odds table
    data_readiness,        \* the data_readiness table
    batch_runs,  \* the batch_runs table, indexed by id
    batch_execution_steps, \* the batch_execution_steps table, indexed by id
    proc,        \* per process: the script it runs, where it is, its session
    faults,      \* what fails in the environment of the runs
    handed,      \* the game logs handed to the feature builder, per run anchor
    inserted,    \* per run id, the game-log and prediction rows it committed
    readinessLog, \* the data_readiness table as each run left it
    \* ---- week resolver (SpecWeek) ----
    wkSchedule,  \* the schedule rows the resolver queries
    wkNow,       \* the clock, in seconds since Monday 2025-12-22 00:00
    wkDown,      \* TRUE while the schedule query raises
    wkOut,       \* the last call of get_current_nfl_week and what it returned
    \* ---- the command line of update_weekly.py (SpecAnchor) ----
    anchor       \* the last invocation: its inputs and what the run is anchored to

featVars == <<fbLogsA, fbLogsB, fbWeek, fbYear, fbPc, fbOut>>
tableVars == <<predictions, nextId>>
svcVars == <<sess, writeLog, overwrites, firstStored, calls>>
storeVars == <<tableVars, svcVars>>
batchVars ==
    <<schedule, gameLogs, sportsbook_odds, data_readiness, batch_runs, batch_execution_steps, proc, faults,
      handed, inserted, readinessLog>>

weekVars == <<wkSchedule, wkNow, wkDown, wkOut>>

vars == <<featVars, storeVars, batchVars, weekVars, anchor>>

(***************************************************************************)
(* The idle values of each subsystem's variables.                          *)
(***************************************************************************)
FeatIdle ==
    /\ fbLogsA = <<>>
    /\ fbLogsB = <<>>
    /\ fbWeek = 1
    /\ fbYear = 2025
    /\ fbPc = "idle"
    /\ fbOut = <<>>

StoreIdle ==
    /\ predictions = {}
    /\ nextId = 1
    /\ sess = <<>>
    /\ writeLog = <<>>
    /\ overwrites = {}
    /\ firstStored = <<>>
    /\ calls = 0

WeekIdle ==
    /\ wkSchedule = {}
    /\ wkNow = 0
    /\ wkDown = FALSE
    /\ wkOut = <<>>
    /\ anchor = <<>>

SvcIdle ==
    /\ sess = <<>>
    /\ writeLog = <<>>
    /\ overwrites = {}
    /\ firstStored = <<>>
    /\ calls = 0

BatchIdle ==
    /\ schedule = {}
    /\ gameLogs = {}
    /\ sportsbook_odds = {}
    /\ data_readiness = {}
    /\ batch_runs = <<>>
    /\ batch_execution_steps = <<>>
    /\ proc = <<>>
    /\ faults = <<>>
    /\ handed = {}
    /\ inserted = <<>>
    /\ readinessLog = <<>>

(***************************************************************************)
(* Floats.  A float is a pair <<n, d>>: a reduced fraction when d > 0,     *)
(* +inf as <<1, 0>>, -inf as <<-1, 0>> and NaN as <<0, 0>>.                *)
(***************************************************************************)
NaN == <<0, 0>>
PosInf == <<1, 0>>
NegInf == <<-1, 0>>

Abs(x) == IF x < 0 THEN -x ELSE x

RECURSIVE Gcd(_, _)
Gcd(a, b) == IF b = 0 THEN a ELSE Gcd(b, a % b)

\* the float n/d of two integers, with IEEE results for d = 0
Frac(n, d) ==
    IF d = 0
    THEN (IF n = 0 THEN NaN ELSE IF n > 0 THEN PosInf ELSE NegInf)
    ELSE LET s == IF d < 0 THEN -1 ELSE 1
             g == Gcd(Abs(n), Abs(d))
         IN  <<(s * n) \div g, (s * d) \div g>>

Flt(n) == <<n, 1>>
IsNaN(x) == x = NaN
IsInf(x) == x = PosInf \/ x = NegInf

\* a / b for a column that is NaN or an integer count, b an integer count
DivCol(a, b) == IF IsNaN(a) THEN NaN ELSE Frac(a[1], b)

\* Series.replace([inf, -inf], 0)
ReplaceInf(x) == IF IsInf(x) THEN Flt(0) ELSE x

\* DataFrame.fillna(0)
FillNa(x) == IF IsNaN(x) THEN Flt(0) ELSE x

(***************************************************************************)
(* Game logs.                                                              *)
(***************************************************************************)
MaxLogs == 2

SeasonYears == {2024, 2025}
LogWeeks == 1..3

\* the stat lines a game log can carry
StatLines ==
    { [receptions |-> 5, receiving_yards |-> 80, receiving_touchdowns |-> 1, targets |-> 8],
      [receptions |-> 0, receiving_yards |-> 3, receiving_touchdowns |-> 0, targets |-> 0] }

MkLog(y, w, s) ==
    [season_year |-> y, week |-> w,
     receptions |-> s.receptions, receiving_yards |-> s.receiving_yards,
     receiving_touchdowns |-> s.receiving_touchdowns, targets |-> s.targets]

LogDicts == { MkLog(y, w, s) : y \in SeasonYears, w \in LogWeeks, s \in StatLines }

LogLists == UNION { [1..n -> LogDicts] : n \in 0..MaxLogs }

\* df.sort_values(by=['season_year', 'week']): a stable sort
LogBefore(a, b) ==
    \/ a.season_year < b.season_year
    \/ a.season_year = b.season_year /\ a.week < b.week

RECURSIVE InsertSorted(_, _)
InsertSorted(s, x) ==
    IF s = <<>> THEN <<x>>
    ELSE IF LogBefore(x, s[Len(s)])
         THEN Append(InsertSorted(SubSeq(s, 1, Len(s) - 1), x), s[Len(s)])
         ELSE Append(s, x)

RECURSIVE SortLogs(_)
SortLogs(s) ==
    IF s = <<>> THEN <<>>
    ELSE InsertSorted(SortLogs(SubSeq(s, 1, Len(s) - 1)), s[Len(s)])

(***************************************************************************)
(* calculate_lagged_features, read at one row i of the sorted frame df.    *)
(***************************************************************************)
\* the rows of row i's season up to and including row i
GroupRows(df, i) == { j \in 1..i : df[j].season_year = df[i].season_year }

\* df.groupby('season_year').cumcount() + 1
WeeksPlayed(df, i) == Cardinality(GroupRows(df, i))

RECURSIVE SumOver(_, _, _)
SumOver(df, rows, col) ==
    IF rows = {} THEN 0
    ELSE LET j == CHOOSE k \in rows : TRUE
         IN  df[j][col] + SumOver(df, rows \ {j}, col)

\* df.groupby('season_year')[col].cumsum().shift(1): shift moves the whole
\* column down one row, whatever the season of the row above
CumShift(df, i, col) ==
    IF i = 1 THEN NaN ELSE Flt(SumOver(df, GroupRows(df, i - 1), col))

\* cumulative_<col> / (weeks_played - 1)
CumPerGame(df, i, col) == DivCol(CumShift(df, i, col), WeeksPlayed(df, i) - 1)

\* groupby('season_year')[col].rolling(window=3, min_periods=1).mean() at row i
RollWindow(df, i) ==
    LET g == GroupRows(df, i)
    IN  { j \in g : Cardinality({ k \in g : k > j }) < 3 }

RollMean(df, i, col) ==
    Frac(SumOver(df, RollWindow(df, i), col), Cardinality(RollWindow(df, i)))

\* ... .shift(1)
RollShift(df, i, col) == IF i = 1 THEN NaN ELSE RollMean(df, i - 1, col)

\* (receiving_yards / receptions).shift(1).replace([inf, -inf], 0)
YardsPerReception(df, i) ==
    IF i = 1 THEN NaN
    ELSE ReplaceInf(Frac(df[i - 1].receiving_yards, df[i - 1].receptions))

\* (cumulative_receiving_touchdowns / cumulative_targets).shift(1).replace(...)
TdRatePerTarget(df, i) ==
    IF i = 1 THEN NaN
    ELSE LET td == CumShift(df, i - 1, "receiving_touchdowns")
             tg == CumShift(df, i - 1, "targets")
         IN  ReplaceInf(IF IsNaN(td) \/ IsNaN(tg) THEN NaN ELSE Frac(td[1], tg[1]))

\* df['receiving_yards'].shift(1)
LagYds(df, i) == IF i = 1 THEN NaN ELSE Flt(df[i - 1].receiving_yards)

\* one row of the frame calculate_lagged_features returns (after fillna(0))
calculate_lagged_features(df, i) ==
    [weeks_played |-> WeeksPlayed(df, i),
     lag_yds |-> FillNa(LagYds(df, i)),
     cumulative_yards_per_game |-> FillNa(CumPerGame(df, i, "receiving_yards")),
     cumulative_receptions_per_game |-> FillNa(CumPerGame(df, i, "receptions")),
     cumulative_targets_per_game |-> FillNa(CumPerGame(df, i, "targets")),
     avg_receiving_yards_last_3 |-> FillNa(RollShift(df, i, "receiving_yards")),
     avg_receptions_last_3 |-> FillNa(RollShift(df, i, "receptions")),
     avg_targets_last_3 |-> FillNa(RollShift(df, i, "targets")),
     yards_per_reception |-> FillNa(YardsPerReception(df, i)),
     td_rate_per_target |-> FillNa(TdRatePerTarget(df, i)),
     is_first_week |-> IF WeeksPlayed(df, i) = 1 THEN 1 ELSE 0]

\* the result None
None == <<>>

\* create_week_1_features
create_week_1_features(week) ==
    <<Flt(week), Flt(0), Flt(0), Flt(0), Flt(0), Flt(0), Flt(0), Flt(0),
      Flt(0), Flt(0), Flt(1)>>

\* extract_prediction_features: the features of the last row of the frame
extract_prediction_features(game_logs, next_week) ==
    IF game_logs = <<>> THEN None
    ELSE LET df == SortLogs(game_logs)
             latest_game == calculate_lagged_features(df, Len(df))
             is_first_week ==
                 IF latest_game.weeks_played = 0 \/ IsNaN(latest_game.lag_yds)
                 THEN 1 ELSE 0
         IN  <<Flt(next_week),
               latest_game.lag_yds,
               latest_game.cumulative_yards_per_game,
               latest_game.cumulative_receptions_per_game,
               latest_game.cumulative_targets_per_game,
               latest_game.avg_receiving_yards_last_3,
               latest_game.avg_receptions_last_3,
               latest_game.avg_targets_last_3,
               latest_game.yards_per_reception,
               latest_game.td_rate_per_target,
               Flt(is_first_week)>>

\* the filter of extract_features_for_current_season
CurrentSeasonLogs(game_logs, current_year, next_week) ==
    SelectSeq(game_logs,
              LAMBDA log : log.season_year = current_year /\ log.week < next_week)

extract_features_for_current_season(game_logs, current_year, next_week) ==
    LET current_season_logs == CurrentSeasonLogs(game_logs, current_year, next_week)
    IN  IF current_season_logs = <<>>
        THEN (IF next_week = 1 THEN create_week_1_features(next_week) ELSE None)
        ELSE extract_prediction_features(current_season_logs, next_week)

(***************************************************************************)
(* SpecFeat: the feature builder applied to two inputs.                    *)
(***************************************************************************)
FeatInit ==
    /\ fbLogsA \in LogLists
    /\ fbLogsB = fbLogsA
    /\ fbWeek \in LogWeeks
    /\ fbYear \in SeasonYears
    /\ fbPc = "input"
    /\ fbOut = <<>>

IsFuture(log) == log.week >= fbWeek

RemoveAt(s, i) == SubSeq(s, 1, i - 1) \o SubSeq(s, i + 1, Len(s))
InsertAt(s, i, x) == SubSeq(s, 1, i - 1) \o <<x>> \o SubSeq(s, i, Len(s))

\* the second input gains a log of week >= fbWeek
AddFutureLog ==
    /\ fbPc = "input"
    /\ \E i \in 1..(Len(fbLogsB) + 1), log \in LogDicts :
          /\ IsFuture(log)
          /\ fbLogsB' = InsertAt(fbLogsB, i, log)
    /\ fbPc' = "edited"
    /\ UNCHANGED <<fbLogsA, fbWeek, fbYear, fbOut>>
    /\ UNCHANGED <<storeVars, batchVars, weekVars, anchor>>

\* the second input loses a log of week >= fbWeek
DropFutureLog ==
    /\ fbPc = "input"
    /\ \E i \in 1..Len(fbLogsB) :
          /\ IsFuture(fbLogsB[i])
          /\ fbLogsB' = RemoveAt(fbLogsB, i)
    /\ fbPc' = "edited"
    /\ UNCHANGED <<fbLogsA, fbWeek, fbYear, fbOut>>
    /\ UNCHANGED <<storeVars, batchVars, weekVars, anchor>>

\* a log of week >= fbWeek of the second input changes (week, season, stats)
ChangeFutureLog ==
    /\ fbPc = "input"
    /\ \E i \in 1..Len(fbLogsB), log \in LogDicts :
          /\ IsFuture(fbLogsB[i])
          /\ IsFuture(log)
          /\ log # fbLogsB[i]
          /\ fbLogsB' = [fbLogsB EXCEPT ![i] = log]
    /\ fbPc' = "edited"
    /\ UNCHANGED <<fbLogsA, fbWeek, fbYear, fbOut>>
    /\ UNCHANGED <<storeVars, batchVars, weekVars, anchor>>

\* both builders run on both inputs
Build ==
    /\ fbPc \in {"input", "edited"}
    /\ fbOut' = [pfA |-> extract_prediction_features(fbLogsA, fbWeek),
                 pfB |-> extract_prediction_features(fbLogsB, fbWeek),
                 csA |-> extract_features_for_current_season(fbLogsA, fbYear, fbWeek),
                 csB |-> extract_features_for_current_season(fbLogsB, fbYear, fbWeek)]
    /\ fbPc' = "built"
    /\ UNCHANGED <<fbLogsA, fbLogsB, fbWeek, fbYear>>
    /\ UNCHANGED <<storeVars, batchVars, weekVars, anchor>>

FeatNext == AddFutureLog \/ DropFutureLog \/ ChangeFutureLog \/ Build

InitFeat == FeatInit /\ StoreIdle /\ BatchIdle /\ WeekIdle

SpecFeat == InitFeat /\ [][FeatNext]_vars

\* the logs of week < fbWeek, in the order they are given
BelowWeek(logs) == SelectSeq(logs, LAMBDA log : log.week < fbWeek)

\* the two inputs differ only in entries whose week is >= fbWeek
DifferOnlyInFuture == BelowWeek(fbLogsA) = BelowWeek(fbLogsB)

\* C1: for two inputs that differ only in entries with week >= W, both
\* builders (extract_prediction_features and
\* extract_features_for_current_season) return the same feature vector.
C1_NoLookahead ==
    (fbPc = "built" /\ DifferOnlyInFuture)
        => (fbOut.pfA = fbOut.pfB /\ fbOut.csA = fbOut.csB)

\* the part of C1 that extract_features_for_current_season satisfies
C1_CurrentSeasonNoLookahead ==
    (fbPc = "built" /\ DifferOnlyInFuture) => fbOut.csA = fbOut.csB

(***************************************************************************)
(* decimal_to_american_odds.  A probability is a whole number of           *)
(* thousandths (300 is 0.300).                                             *)
(***************************************************************************)
\* Python's round(): n/d (d > 0) to the nearest integer, halves to even
RoundHalfEven(n, d) ==
    LET q == n \div d
        r == n % d
    IN  IF 2 * r < d THEN q
        ELSE IF 2 * r > d THEN q + 1
        ELSE IF q % 2 = 0 THEN q ELSE q + 1

\* a conversion that takes an even chance for an underdog
odds_with_even_chance_as_underdog(probability) ==
    LET probability_pct == RoundHalfEven(probability, 10)
    IN  IF probability = 0 \/ probability_pct <= 0
        THEN [formatted |-> <<"+", 999>>, odds |-> Flt(999), favor |-> 1]
        ELSE IF probability_pct >= 100
        THEN [formatted |-> <<"", -999>>, odds |-> Flt(-999), favor |-> -1]
        ELSE IF probability_pct <= 50
        THEN LET odds == Frac(10000 - 100 * probability_pct, probability_pct)
             IN  [formatted |-> <<"+", RoundHalfEven(odds[1], odds[2])>>,
                  odds |-> odds, favor |-> 1]
        ELSE LET odds == Frac(-100 * probability_pct, 100 - probability_pct)
             IN  [formatted |-> <<"", RoundHalfEven(odds[1], odds[2])>>,
                  odds |-> odds, favor |-> -1]

decimal_to_american_odds(probability) ==
    IF probability = 0
    THEN [formatted |-> <<"+", 999>>, odds |-> Flt(999), favor |-> 1]
    ELSE LET probability_pct == RoundHalfEven(probability, 10)
         IN  IF probability_pct <= 0
             THEN [formatted |-> <<"+", 999>>, odds |-> Flt(999), favor |-> 1]
             ELSE IF probability_pct >= 100
             THEN [formatted |-> <<"", -999>>, odds |-> Flt(-999), favor |-> -1]
             ELSE IF probability_pct < 50
             THEN LET odds == Frac(10000 - 100 * probability_pct, probability_pct)
                  IN  [formatted |-> <<"+", RoundHalfEven(odds[1], odds[2])>>,
                       odds |-> odds, favor |-> 1]
             ELSE LET odds == Frac(-100 * probability_pct, 100 - probability_pct)
                  IN  [formatted |-> <<"", RoundHalfEven(odds[1], odds[2])>>,
                       odds |-> odds, favor |-> -1]

(***************************************************************************)
(* The predictions table and the database sessions that write to it.       *)
(* Sessions are created with autoflush=False: an added row reaches the     *)
(* table only when its session commits.                                    *)
(***************************************************************************)
MaxCalls == 2

Players == {"P1", "P2"}
PlayerList == <<"P1", "P2">>
Sessions == {1, 2}

\* what the scorer returns for a player at the time of a call
Probabilities == {300, 900}

\* the (season_year, week) the store's callers write for
StoreKey(player_id) == [player_id |-> player_id, season_year |-> 2025, week |-> 5]

KeyOf(row) ==
    [player_id |-> row.player_id, season_year |-> row.season_year, week |-> row.week]

ValuesOf(row) ==
    [td_likelihood |-> row.td_likelihood, model_odds |-> row.model_odds,
     favor |-> row.favor]

\* Prediction(player_id=..., td_likelihood=probability, model_odds=..., favor=...)
Prediction(key, probability, odds_value, favor) ==
    [player_id |-> key.player_id, season_year |-> key.season_year, week |-> key.week,
     td_likelihood |-> probability, model_odds |-> odds_value, favor |-> favor]

NoSession ==
    [caller |-> "none", pc |-> "idle", new |-> <<>>, dirty |-> {}, asked |-> "default",
     todo |-> <<>>, generated |-> 0, skipped |-> 0, failed |-> 0, entry |-> <<>>]

\* select(Prediction).where(player_id, season_year, week): the committed rows
Existing(key) == { r \in predictions : KeyOf(r) = key }

\* the update_existing a call runs with: the parameter's default is True
UpdateExisting(asked) == IF asked = "default" THEN TRUE ELSE asked = "yes"

\* PredictionService._save_prediction, on the session record se
save_prediction(se, key, probability, odds_value, favor, update_existing) ==
    IF Existing(key) # {}
    THEN IF update_existing
         THEN LET existing == CHOOSE r \in Existing(key) : TRUE
              IN  [se EXCEPT !.dirty =
                      { d \in se.dirty : d.id # existing.id }
                      \cup {[id |-> existing.id, td_likelihood |-> probability,
                             model_odds |-> odds_value, favor |-> favor]}]
         ELSE se
    ELSE [se EXCEPT !.new = Append(se.new, Prediction(key, probability, odds_value, favor))]

\* what generate_prediction does once the scorer has returned probability
generate_prediction(se, player_id, probability, save_to_db, update_existing) ==
    LET o == decimal_to_american_odds(probability)
    IN  IF save_to_db
        THEN save_prediction(se, StoreKey(player_id), probability, o.odds, o.favor,
                             update_existing)
        ELSE se

\* the entry of writeLog for one write
LogEntry(player_id, probability, asked, report) ==
    [player_id |-> player_id, probability |-> probability, asked |-> asked,
     overwrite |-> UpdateExisting(asked),
     existed |-> Existing(StoreKey(player_id)) # {}, report |-> report]

\* the unique constraint uix_player_season_week, checked when a session flushes
NewKeys(se) == { KeyOf(se.new[i]) : i \in 1..Len(se.new) }

\* a table without the unique constraint: no flush is ever refused
NoUniqueConstraint(se) == FALSE

IntegrityError(se) ==
    \/ \E i \in 1..Len(se.new) : Existing(KeyOf(se.new[i])) # {}
    \/ \E i, j \in 1..Len(se.new) : i # j /\ KeyOf(se.new[i]) = KeyOf(se.new[j])

\* the table after the session's UPDATEs and INSERTs
Updated(se, r) ==
    IF \E d \in se.dirty : d.id = r.id
    THEN LET d == CHOOSE x \in se.dirty : x.id = r.id
         IN  [r EXCEPT !.td_likelihood = d.td_likelihood,
                       !.model_odds = d.model_odds, !.favor = d.favor]
    ELSE r

Flushed(se) ==
    { Updated(se, r) : r \in predictions }
    \cup { [id |-> nextId + i - 1] @@ se.new[i] : i \in 1..Len(se.new) }

\* session.commit(); a failed flush is rolled back by the caller
Commit(se) ==
    IF IntegrityError(se)
    THEN /\ UNCHANGED <<predictions, nextId, overwrites, firstStored>>
    ELSE /\ predictions' = Flushed(se)
         /\ nextId' = nextId + Len(se.new)
         /\ overwrites' = overwrites \cup
               { [player_id |-> r.player_id, asked |-> se.asked] :
                    r \in { x \in predictions : Updated(se, x) # x } }
         /\ firstStored' =
               [k \in DOMAIN firstStored |->
                   IF firstStored[k] = None /\ k \in NewKeys(se)
                   THEN ValuesOf(CHOOSE i \in { se.new[j] : j \in 1..Len(se.new) } :
                                    KeyOf(i) = k)
                   ELSE firstStored[k]]

StoreInit ==
    /\ predictions = {}
    /\ nextId = 1
    /\ sess = [s \in Sessions |-> NoSession]
    /\ writeLog = <<>>
    /\ overwrites = {}
    /\ firstStored = [k \in { StoreKey(p) : p \in Players } |-> None]
    /\ calls = 0

\* POST /api/predictions/generate/{player_id}: the endpoint calls
\* generate_prediction; get_db commits when the endpoint has returned
ApiGenerate(s) ==
    /\ sess[s].caller = "none"
    /\ calls < MaxCalls
    /\ calls' = calls + 1
    /\ \E player_id \in Players, asked \in {"default", "yes", "no"},
          save_to_db \in BOOLEAN, probability \in Probabilities :
          LET se == [NoSession EXCEPT !.caller = "api", !.pc = "commit", !.asked = asked,
                        !.entry = IF save_to_db
                                  THEN <<LogEntry(player_id, probability, asked, "generated")>>
                                  ELSE <<>>]
          IN  sess' = [sess EXCEPT ![s] =
                          generate_prediction(se, player_id, probability, save_to_db,
                                              UpdateExisting(asked))]
    /\ UNCHANGED <<predictions, nextId, writeLog, overwrites, firstStored>>
    /\ UNCHANGED <<featVars, batchVars, weekVars, anchor>>

\* the scorer returns None: generate_prediction raises ValueError, the
\* endpoint answers 500 and get_db rolls back
ApiRaise(s) ==
    /\ sess[s].caller = "none"
    /\ calls < MaxCalls
    /\ calls' = calls + 1
    /\ UNCHANGED <<predictions, nextId, sess, writeLog, overwrites, firstStored>>
    /\ UNCHANGED <<featVars, batchVars, weekVars, anchor>>

\* get_db: session.commit() after the endpoint; a failed commit is rolled
\* back and the request ends in an error
ApiCommit(s) ==
    /\ sess[s].caller = "api"
    /\ sess[s].pc = "commit"
    /\ Commit(sess[s])
    /\ writeLog' = writeLog \o
          (IF IntegrityError(sess[s])
           THEN [i \in DOMAIN sess[s].entry |-> [sess[s].entry[i] EXCEPT !.report = "error"]]
           ELSE sess[s].entry)
    /\ sess' = [sess EXCEPT ![s] = NoSession]
    /\ UNCHANGED calls
    /\ UNCHANGED <<featVars, batchVars, weekVars, anchor>>

\* generate_current_week_predictions: the players to predict
BatchStart(s) ==
    /\ sess[s].caller = "none"
    /\ calls < MaxCalls
    /\ \E asked \in {"default", "yes", "no"} :
          sess' = [sess EXCEPT ![s] =
                      [NoSession EXCEPT !.caller = "batch", !.pc = "loop",
                                        !.asked = asked, !.todo = PlayerList]]
    /\ calls' = calls + 1
    /\ UNCHANGED <<predictions, nextId, writeLog, overwrites, firstStored>>
    /\ UNCHANGED <<featVars, batchVars, weekVars, anchor>>

\* one pass of the loop: generate_prediction returns, and the player counts
\* as generated
BatchGenerate(s) ==
    /\ sess[s].caller = "batch"
    /\ sess[s].pc = "loop"
    /\ sess[s].todo # <<>>
    /\ \E probability \in Probabilities :
          LET player_id == Head(sess[s].todo)
              se == [sess[s] EXCEPT !.todo = Tail(@), !.generated = @ + 1]
          IN  /\ sess' = [sess EXCEPT ![s] =
                            generate_prediction(se, player_id, probability, TRUE,
                                                UpdateExisting(se.asked))]
              /\ writeLog' = Append(writeLog,
                                LogEntry(player_id, probability, se.asked, "generated"))
    /\ UNCHANGED <<predictions, nextId, overwrites, firstStored, calls>>
    /\ UNCHANGED <<featVars, batchVars, weekVars, anchor>>

\* one pass of the loop: generate_prediction raises ValueError (counted as
\* skipped) or another exception (counted as failed); nothing is written
BatchRaise(s) ==
    /\ sess[s].caller = "batch"
    /\ sess[s].pc = "loop"
    /\ sess[s].todo # <<>>
    /\ \E value_error \in BOOLEAN :
          sess' = [sess EXCEPT ![s] =
                      [@ EXCEPT !.todo = Tail(@),
                                !.skipped = IF value_error THEN @ + 1 ELSE @,
                                !.failed = IF value_error THEN @ ELSE @ + 1]]
    /\ UNCHANGED <<predictions, nextId, writeLog, overwrites, firstStored, calls>>
    /\ UNCHANGED <<featVars, batchVars, weekVars, anchor>>

\* await self.db.commit() after the loop; its exception is not caught
BatchCommit(s) ==
    /\ sess[s].caller = "batch"
    /\ sess[s].pc = "loop"
    /\ sess[s].todo = <<>>
    /\ Commit(sess[s])
    /\ sess' = [sess EXCEPT ![s] = NoSession]
    /\ UNCHANGED <<writeLog, calls>>
    /\ UNCHANGED <<featVars, batchVars, weekVars, anchor>>

StoreNext ==
    \E s \in Sessions :
        \/ ApiGenerate(s)
        \/ ApiRaise(s)
        \/ ApiCommit(s)
        \/ BatchStart(s)
        \/ BatchGenerate(s)
        \/ BatchRaise(s)
        \/ BatchCommit(s)

InitStore == StoreInit /\ FeatIdle /\ BatchIdle /\ WeekIdle

SpecStore == InitStore /\ [][StoreNext]_vars

\* the writes to a player's key, in the order they were made
WritesTo(player_id) ==
    SelectSeq(writeLog, LAMBDA e : e.player_id = player_id)

NeverOverwritten(player_id) ==
    \A i \in 1..Len(writeLog) :
        writeLog[i].player_id = player_id => ~writeLog[i].overwrite

Quiescent == \A s \in Sessions : sess[s].caller = "none"

\* C3: when no write to a key requests overwrite, the stored row keeps the
\* values of the first write and every later write is reported as skipped.
C3_FirstWriteWins ==
    \A p \in Players :
        (Quiescent /\ NeverOverwritten(p)) =>
            /\ \A r \in Existing(StoreKey(p)) : ValuesOf(r) = firstStored[StoreKey(p)]
            /\ \A i \in 2..Len(WritesTo(p)) : WritesTo(p)[i].report = "skipped"

\* the part of C3 the code satisfies: the stored values are those of the
\* first committed write
C3_StoredValuesKept ==
    \A p \in Players :
        NeverOverwritten(p) =>
            \A r \in Existing(StoreKey(p)) : ValuesOf(r) = firstStored[StoreKey(p)]

\* C4: a stored prediction is overwritten only by a call that explicitly
\* requested overwrite; a call that says nothing does not overwrite.
C4_OverwriteNeverDefault ==
    \A o \in overwrites : o.asked = "yes"

(***************************************************************************)
(* The weekly batch: update_weekly.py and generate_predictions.py, each    *)
(* tracked by a BatchTracker that shares the script's database session.    *)
(***************************************************************************)
MaxPlayers == 5
MaxGames == 2
MaxRuns == 2

\* the prediction loop commits every 50 players; the model scales the
\* interval down with the roster
CommitEvery == 2

\* settings.NFL_SEASON_YEAR
NFL_SEASON_YEAR == 2025

\* database NULL / Python None in a text column
Null == "NULL"

\* the players table: active WR/TE, in the order the select returns them
Roster == 1..MaxPlayers
players_table == [i \in 1..MaxPlayers |-> i]

\* a player id that box scores carry and the players table lacks
UnknownPlayer == 0

Procs == {1, 2}
RunYears == {2024, 2025}
RunWeeks == {3}
Modes == {"full", "odds_only", "ingest_only", "schedule_only"}
SeasonTypes == {"reg", "post"}
StepNames == {"schedule", "game_logs", "predictions", "odds"}

Configs == [mode : Modes, year : RunYears, week : RunWeeks, season_type : SeasonTypes]

(***************************************************************************)
(* The provider (Tank01).                                                  *)
(***************************************************************************)
GameId(season, season_type, week, n) == <<season, season_type, week, n>>

\* client.get_schedule(season, week, season_type): the games of a week
get_schedule(season, week, season_type) ==
    { GameId(season, season_type, week, n) : n \in 1..MaxGames }

\* the roster players who have receiving stats in a game
PlayersIn(game_id) == { i \in Roster : (i % MaxGames) + 1 = game_id[4] }

\* client.get_game_logs_from_box_score(game_id, season_year, week)
get_game_logs_from_box_score(game_id, season_year, week) ==
    { [player_id |-> i, game_id |-> game_id, season_year |-> season_year, week |-> week] :
        i \in PlayersIn(game_id) \cup {UnknownPlayer} }

\* client.get_betting_odds(game_id): the anytime-TD props of a game, one
\* record per sportsbook
get_betting_odds(game_id, season_year, week) ==
    { [player_id |-> i, game_id |-> game_id, season_year |-> season_year, week |-> week,
       sportsbook |-> b, anytime_td_odds |-> 150] :
        i \in PlayersIn(game_id) \cup {UnknownPlayer}, b \in {"draftkings", "fanduel"} }

(***************************************************************************)
(* Rows.                                                                   *)
(***************************************************************************)
Schedule(game_id, season_year, week, season_type) ==
    [game_id |-> game_id, season_year |-> season_year, week |-> week,
     season_type |-> season_type]

BatchRun(id, batch_type, batch_mode, season_year, week, season_type) ==
    [id |-> id, batch_type |-> batch_type, batch_mode |-> batch_mode,
     season_year |-> season_year, week |-> week, season_type |-> season_type,
     status |-> "running", games_processed |-> 0, game_logs_added |-> 0,
     predictions_generated |-> 0, predictions_skipped |-> 0, odds_synced |-> 0,
     errors_encountered |-> 0, warnings |-> <<>>, error_message |-> Null]

BatchExecutionStep(id, batch_run_id, step_name, step_order) ==
    [id |-> id, batch_run_id |-> batch_run_id, step_name |-> step_name,
     step_order |-> step_order, status |-> "running", records_processed |-> 0,
     error_message |-> Null]

\* a process that runs no script
IdleProc ==
    [script |-> "none", pc |-> "idle", mode |-> "full", year |-> NFL_SEASON_YEAR,
     week |-> 1, season_type |-> "reg", run_id |-> 0, current_step |-> 0,
     warnings |-> <<>>, exc |-> Null, todo |-> <<>>, i |-> 0, pending |-> <<>>,
     successful |-> 0, failed |-> 0, skipped |-> 0, runs |-> 0, BATCH_RUN_ID |-> 0]

(***************************************************************************)
(* BatchTracker.  steps is the batch_execution_steps table, current_step   *)
(* the id of the tracker's current step (0 for None).                      *)
(***************************************************************************)
\* BatchTracker.complete_step
complete_step(steps, current_step, status, records_processed, error_message) ==
    IF current_step = 0
    THEN steps
    ELSE [steps EXCEPT ![current_step] =
            [@ EXCEPT !.status = status,
                      !.records_processed = records_processed,
                      !.error_message =
                          IF error_message # Null /\ error_message # ""
                          THEN error_message ELSE @]]

\* a fail_step that records the step as succeeded
fail_step_as_success(steps, current_step, error_message) ==
    complete_step(steps, current_step, "success", 0, error_message)

\* a fail_step that leaves the step as it is
fail_step_unrecorded(steps, current_step, error_message) == steps

\* BatchTracker.fail_step
fail_step(steps, current_step, error_message) ==
    complete_step(steps, current_step, "failed", 0, error_message)

\* a skip_step that records the step as failed
skip_step_as_failed(steps, current_step, reason) ==
    complete_step(steps, current_step, "failed", 0, reason)

\* BatchTracker.skip_step
skip_step(steps, current_step, reason) ==
    complete_step(steps, current_step, "skipped", 0, "Skipped: " \o reason)

\* BatchTracker.start_step: the table after the step was added
start_step(steps, current_step, batch_run_id, step_name, step_order) ==
    LET completed ==
            IF current_step # 0 /\ steps[current_step].status = "running"
            THEN complete_step(steps, current_step, "success", 0, Null)
            ELSE steps
    IN  Append(completed,
               BatchExecutionStep(Len(completed) + 1, batch_run_id, step_name, step_order))

\* BatchTracker.add_warning
add_warning(warnings, step, message) ==
    Append(warnings, [step |-> step, message |-> message])

\* BatchTracker.increment_metric
increment_metric(batch_run, metric, count) ==
    [batch_run EXCEPT ![metric] = @ + count]

\* a status rule under which a warning does not make the run partial
aexit_status_no_partial(exc, warnings) ==
    IF exc # Null THEN "failed" ELSE "success"

\* BatchTracker.__aexit__: the status the run ends in; exc is str(exc_val),
\* Null when no exception reached the context manager
aexit_status(exc, warnings) ==
    IF exc # Null THEN "failed"
    ELSE IF warnings # <<>> THEN "partial"
    ELSE "success"

\* a readiness row that counts the game logs of its own week
same_week(week) == week

\* prior_week = week - 1 if week > 1 else week
prior_week_of(week) == IF week > 1 THEN week - 1 ELSE week

\* update_data_readiness: the row it upserts
ReadinessRow(season_year, week, season_type) ==
    LET season_type_map ==
            [reg |-> "Regular Season", post |-> "Post Season"]
        db_season_type ==
            IF season_type \in DOMAIN season_type_map
            THEN season_type_map[season_type] ELSE season_type
        games_count ==
            Cardinality({ g \in schedule : /\ g.season_year = season_year
                                           /\ g.week = week
                                           /\ g.season_type = db_season_type })
        prior_week == prior_week_of(week)
        game_logs_count ==
            Cardinality({ l \in gameLogs : l.season_year = season_year /\ l.week = prior_week })
        predictions_count ==
            Cardinality({ r \in predictions : r.season_year = season_year /\ r.week = week })
        draftkings_odds_count ==
            Cardinality({ o \in sportsbook_odds : /\ o.season_year = season_year
                                                  /\ o.week = week
                                                  /\ o.sportsbook = "draftkings" })
        fanduel_odds_count ==
            Cardinality({ o \in sportsbook_odds : /\ o.season_year = season_year
                                                  /\ o.week = week
                                                  /\ o.sportsbook = "fanduel" })
        expected_games == IF season_type = "reg" THEN 14 ELSE 1
    IN  [season_year |-> season_year, week |-> week, season_type |-> season_type,
         schedule_complete |-> games_count >= expected_games,
         game_logs_available |-> game_logs_count > 0,
         predictions_available |-> predictions_count > 0,
         draftkings_odds_available |-> draftkings_odds_count > 0,
         fanduel_odds_available |-> fanduel_odds_count > 0,
         games_count |-> games_count, game_logs_count |-> game_logs_count,
         predictions_count |-> predictions_count,
         draftkings_odds_count |-> draftkings_odds_count,
         fanduel_odds_count |-> fanduel_odds_count]

ReadinessKey(row) == <<row.season_year, row.week, row.season_type>>

update_data_readiness(season_year, week, season_type) ==
    LET row == ReadinessRow(season_year, week, season_type)
    IN  { r \in data_readiness : ReadinessKey(r) # ReadinessKey(row) } \cup {row}

(***************************************************************************)
(* The step functions of update_weekly.py.                                 *)
(***************************************************************************)
\* update_schedule: the rows it adds (games the table does not hold yet)
ScheduleRows(current_season, week, season_type) ==
    { Schedule(g, current_season, week, season_type) :
        g \in { x \in get_schedule(current_season, week, season_type) :
                  \A e \in schedule : e.game_id # x } }

update_schedule(current_season, current_week) ==
    LET weeks_to_update ==
            IF current_week <= 18
            THEN (IF current_week < 18 THEN {current_week, current_week + 1}
                                       ELSE {current_week})
            ELSE {}
        regular == UNION { ScheduleRows(current_season, week, "reg") : week \in weeks_to_update }
        playoff ==
            IF current_week = 18
            THEN UNION { ScheduleRows(current_season, playoff_week, "post") :
                            playoff_week \in 1..4 }
            ELSE {}
    IN  regular \cup playoff

\* select(Player.player_id)
valid_player_ids == { players_table[i] : i \in 1..Len(players_table) }

\* update_game_logs_from_box_scores: the games of the completed week
CompletedGames(current_season, current_week) ==
    { g \in schedule : g.season_year = current_season /\ g.week = current_week - 1 }

\* the box-score fetch of a game raises
FetchFails(game) == game.game_id[4] \in faults.badGames

\* a loop in which one failed fetch loses the logs of every game
LogsAddedNoneAfterFailure(game, current_season, current_week) ==
    IF faults.badGames # {}
    THEN {}
    ELSE { log \in get_game_logs_from_box_score(game.game_id, current_season,
                                                current_week - 1) :
             /\ log.player_id \in valid_player_ids
             /\ \A e \in gameLogs :
                   ~(e.player_id = log.player_id /\ e.game_id = game.game_id) }

\* the logs one pass of the loop adds and commits for a game
LogsAdded(game, current_season, current_week) ==
    IF FetchFails(game)
    THEN {}
    ELSE { log \in get_game_logs_from_box_score(game.game_id, current_season,
                                                current_week - 1) :
             /\ log.player_id \in valid_player_ids
             /\ \A e \in gameLogs :
                   ~(e.player_id = log.player_id /\ e.game_id = game.game_id) }

\* the rows the function commits; new_logs is their number, because the
\* logs of different games have different game ids
update_game_logs_from_box_scores(current_season, current_week) ==
    UNION { LogsAdded(game, current_season, current_week) :
              game \in CompletedGames(current_season, current_week) }

\* sync_odds_for_next_week: all_odds_values
all_odds_values(current_season, current_week) ==
    IF current_week > 18
    THEN {}
    ELSE { v \in UNION { get_betting_odds(game.game_id, current_season, current_week) :
                           game \in { g \in schedule : /\ g.season_year = current_season
                                                       /\ g.week = current_week
                                                       /\ ~FetchFails(g) } } :
             v.player_id \in valid_player_ids }

OddsKey(o) == <<o.player_id, o.game_id, o.sportsbook>>

\* a sync that replaces the table by the rows it fetched
ReplaceOdds(values) == values

\* insert(SportsbookOdds).values(...).on_conflict_do_update(...)
UpsertOdds(values) ==
    { o \in sportsbook_odds : \A v \in values : OddsKey(v) # OddsKey(o) } \cup values

\* DataService.get_game_logs_for_current_season, as called by
\* get_player_data_for_prediction(player_id, next_week)
get_game_logs_for_current_season(player_id, current_week) ==
    { log \in gameLogs : /\ log.player_id = player_id
                         /\ log.season_year = NFL_SEASON_YEAR
                         /\ log.week < current_week }

\* the scorer raises for this player
ScoringRaises(player_id) == player_id \in faults.badPlayers

\* the row the loop adds for a player: the week-1 baseline when the player
\* has no game logs, the model's probability otherwise
PredictionFor(player_id, current_season, current_week) ==
    LET td_prob ==
            IF get_game_logs_for_current_season(player_id, current_week) = {}
            THEN 100 ELSE 300
        o == decimal_to_american_odds(td_prob)
    IN  Prediction([player_id |-> player_id, season_year |-> current_season,
                    week |-> current_week], td_prob, o.odds, o.favor)

\* the session holding the rows db.add() has collected
Session(pending) == [NoSession EXCEPT !.new = pending]

\* players_to_predict: the roster without the players that have a row
players_to_predict(season_year, week) ==
    LET existing_player_ids ==
            { r.player_id : r \in { x \in predictions : /\ x.season_year = season_year
                                                        /\ x.week = week } }
    IN  SelectSeq(players_table, LAMBDA player : player \notin existing_player_ids)

(***************************************************************************)
(* The processes.  proc[p].pc is the next block of the script.             *)
(***************************************************************************)
Me(p) == proc[p]

\* try: ... complete_step(status='success', records_processed=n)
StepSucceeds(p, pr, metric, n, next_pc) ==
    /\ batch_runs' = [batch_runs EXCEPT ![Me(p).run_id] = increment_metric(@, metric, n)]
    /\ batch_execution_steps' =
          complete_step(batch_execution_steps, Me(p).current_step, "success", n, Null)
    /\ proc' = [proc EXCEPT ![p] = [pr EXCEPT !.current_step = 0, !.pc = next_pc]]

\* except Exception as e: fail_step(error_message=str(e)); raise
StepRaises(p, pr, message) ==
    /\ batch_execution_steps' =
          fail_step(batch_execution_steps, Me(p).current_step, message)
    /\ proc' = [proc EXCEPT ![p] = [pr EXCEPT !.current_step = 0, !.exc = message,
                                            !.pc = "exit"]]
    /\ UNCHANGED batch_runs

\* tracker.start_step(step_name, step_order)
StepStarts(p, step_name, step_order, next_pc) ==
    /\ batch_execution_steps' =
          start_step(batch_execution_steps, Me(p).current_step, Me(p).run_id,
                     step_name, step_order)
    /\ proc' = [proc EXCEPT ![p] = [@ EXCEPT !.current_step = Len(batch_execution_steps'),
                                           !.pc = next_pc]]

\* a block whose condition is false
StepNotRun(p, next_pc) ==
    /\ proc' = [proc EXCEPT ![p] = [@ EXCEPT !.pc = next_pc]]
    /\ UNCHANGED batch_execution_steps

\* update_weekly.main: the run is anchored to cfg; BatchTracker.__aenter__
\* commits the BatchRun.  A later invocation repeats the configuration.
Main(p, configs) ==
    /\ Me(p).script \in {"none", "update_weekly"}
    /\ Me(p).pc \in {"idle", "done"}
    /\ Me(p).runs < MaxRuns
    /\ \E cfg \in configs :
          /\ Me(p).runs > 0 =>
                cfg = [mode |-> Me(p).mode, year |-> Me(p).year, week |-> Me(p).week,
                       season_type |-> Me(p).season_type]
          /\ batch_runs' =
                Append(batch_runs,
                       BatchRun(Len(batch_runs) + 1, "weekly_update", cfg.mode, cfg.year,
                                cfg.week, cfg.season_type))
          /\ proc' = [proc EXCEPT ![p] =
                        [IdleProc EXCEPT !.script = "update_weekly", !.pc = "schedule",
                                         !.mode = cfg.mode, !.year = cfg.year,
                                         !.week = cfg.week,
                                         !.season_type = cfg.season_type,
                                         !.run_id = Len(batch_runs) + 1,
                                         !.runs = Me(p).runs + 1]]
    /\ inserted' = Append(inserted, [schedule |-> {}, game_logs |-> {}, predictions |-> {}])
    /\ UNCHANGED <<schedule, gameLogs, sportsbook_odds, data_readiness, tableVars,
                   batch_execution_steps, faults, handed, readinessLog>>
    /\ UNCHANGED <<featVars, svcVars, weekVars, anchor>>

\* STEP 1: if mode in ['full', 'ingest_only', 'schedule_only']: start_step
StartSchedule(p) ==
    /\ Me(p).pc = "schedule"
    /\ IF Me(p).mode \in {"full", "ingest_only", "schedule_only"}
       THEN StepStarts(p, "schedule", 1, "schedule_body")
       ELSE StepNotRun(p, "game_logs")
    /\ UNCHANGED <<schedule, gameLogs, sportsbook_odds, data_readiness, tableVars,
                   batch_runs, faults, handed, inserted, readinessLog>>
    /\ UNCHANGED <<featVars, svcVars, weekVars, anchor>>

\* STEP 1: update_schedule, then complete_step or fail_step and raise
RunSchedule(p) ==
    /\ Me(p).pc = "schedule_body"
    /\ IF faults.step = "schedule"
       THEN /\ StepRaises(p, Me(p), "schedule: database error")
            /\ UNCHANGED <<schedule, inserted>>
       ELSE LET added == update_schedule(Me(p).year, Me(p).week)
            IN  /\ schedule' = schedule \cup added
                /\ inserted' = [inserted EXCEPT ![Me(p).run_id].schedule = @ \cup added]
                /\ StepSucceeds(p, Me(p), "games_processed", Cardinality(added),
                                "game_logs")
    /\ UNCHANGED <<gameLogs, sportsbook_odds, data_readiness, tableVars, faults, handed,
                   readinessLog>>
    /\ UNCHANGED <<featVars, svcVars, weekVars, anchor>>

\* STEP 2: if mode in ['full', 'ingest_only']: start_step; in a playoff week
\* the step is skipped with a warning
StartGameLogs(p) ==
    /\ Me(p).pc = "game_logs"
    /\ IF Me(p).mode \in {"full", "ingest_only"}
       THEN IF Me(p).season_type = "reg"
            THEN StepStarts(p, "game_logs", 2, "game_logs_body")
            ELSE LET started == start_step(batch_execution_steps, Me(p).current_step,
                                           Me(p).run_id, "game_logs", 2)
                 IN  /\ batch_execution_steps' =
                           skip_step(started, Len(started),
                                     "Playoffs not supported for predictions")
                     /\ proc' = [proc EXCEPT ![p] =
                                   [@ EXCEPT !.warnings =
                                                add_warning(@, "game_logs",
                                                    "Skipped - playoffs not supported"),
                                             !.current_step = 0,
                                             !.pc = "predictions"]]
       ELSE StepNotRun(p, "predictions")
    /\ UNCHANGED <<schedule, gameLogs, sportsbook_odds, data_readiness, tableVars,
                   batch_runs, faults, handed, inserted, readinessLog>>
    /\ UNCHANGED <<featVars, svcVars, weekVars, anchor>>

\* STEP 2: update_game_logs_from_box_scores
RunGameLogs(p) ==
    /\ Me(p).pc = "game_logs_body"
    /\ IF faults.step = "game_logs"
       THEN /\ StepRaises(p, Me(p), "game_logs: database error")
            /\ UNCHANGED <<gameLogs, inserted>>
       ELSE LET added == update_game_logs_from_box_scores(Me(p).year, Me(p).week)
            IN  /\ gameLogs' = gameLogs \cup added
                /\ inserted' = [inserted EXCEPT ![Me(p).run_id].game_logs = @ \cup added]
                /\ StepSucceeds(p, Me(p), "game_logs_added", Cardinality(added),
                                "predictions")
    /\ UNCHANGED <<schedule, sportsbook_odds, data_readiness, tableVars, faults, handed,
                   readinessLog>>
    /\ UNCHANGED <<featVars, svcVars, weekVars, anchor>>

\* a STEP 3 that does not look at the season type
StartPredictionsInAnyWeek(p) ==
    /\ Me(p).pc = "predictions"
    /\ IF Me(p).mode = "full"
       THEN StepStarts(p, "predictions", 3, "pred_select")
       ELSE StepNotRun(p, "odds")
    /\ UNCHANGED <<schedule, gameLogs, sportsbook_odds, data_readiness, tableVars,
                   batch_runs, faults, handed, inserted, readinessLog>>
    /\ UNCHANGED <<featVars, svcVars, weekVars, anchor>>

\* STEP 3: if mode == 'full' and season_type == 'reg': start_step
StartPredictions(p) ==
    /\ Me(p).pc = "predictions"
    /\ IF Me(p).mode = "full" /\ Me(p).season_type = "reg"
       THEN StepStarts(p, "predictions", 3, "pred_select")
       ELSE StepNotRun(p, "odds")
    /\ UNCHANGED <<schedule, gameLogs, sportsbook_odds, data_readiness, tableVars,
                   batch_runs, faults, handed, inserted, readinessLog>>
    /\ UNCHANGED <<featVars, svcVars, weekVars, anchor>>

\* generate_predictions_for_week up to the loop: the players to predict
SelectPlayers(p) ==
    /\ Me(p).pc = "pred_select"
    /\ IF faults.step = "predictions"
       THEN StepRaises(p, Me(p), "predictions: database error")
       ELSE LET todo == players_to_predict(Me(p).year, Me(p).week)
            IN  IF todo = <<>>
                THEN StepSucceeds(p, Me(p), "predictions_generated", 0, "odds")
                ELSE /\ proc' = [proc EXCEPT ![p] = [@ EXCEPT !.todo = todo,
                                                            !.pc = "pred_loop"]]
                     /\ UNCHANGED <<batch_runs, batch_execution_steps>>
    /\ UNCHANGED <<schedule, gameLogs, sportsbook_odds, data_readiness, tableVars, faults,
                   handed, inserted, readinessLog>>
    /\ UNCHANGED <<featVars, svcVars, weekVars, anchor>>

\* one pass of the prediction loop (the same in update_weekly.py and in
\* generate_predictions.py): the player's row is added and, at every
\* CommitEvery-th player, the session is committed; an exception in the pass
\* or a failed commit rolls the session back
PredictPlayer(p) ==
    /\ Me(p).pc = "pred_loop"
    /\ Me(p).todo # <<>>
    /\ LET player == Head(Me(p).todo)
           i == Me(p).i + 1
           game_logs == get_game_logs_for_current_season(player, Me(p).week)
           added == Append(Me(p).pending, PredictionFor(player, Me(p).year, Me(p).week))
           commits == i % CommitEvery = 0
           next == [Me(p) EXCEPT !.todo = Tail(@), !.i = i]
       IN  /\ handed' = handed \cup
                 { [season_year |-> Me(p).year, week |-> Me(p).week, log |-> log] :
                     log \in game_logs }
           /\ IF ScoringRaises(player)
              THEN /\ proc' = [proc EXCEPT ![p] =
                                 [next EXCEPT !.pending = <<>>, !.failed = @ + 1]]
                   /\ batch_runs' =
                         IF Me(p).script = "generate_predictions"
                         THEN [batch_runs EXCEPT ![Me(p).run_id] =
                                 increment_metric(@, "errors_encountered", 1)]
                         ELSE batch_runs
                   /\ UNCHANGED <<tableVars, inserted>>
              ELSE IF commits /\ ~IntegrityError(Session(added))
              THEN /\ predictions' = Flushed(Session(added))
                   /\ nextId' = nextId + Len(added)
                   /\ inserted' = [inserted EXCEPT ![Me(p).run_id].predictions =
                                     @ \cup { added[k] : k \in 1..Len(added) }]
                   /\ proc' = [proc EXCEPT ![p] =
                                 [next EXCEPT !.pending = <<>>, !.successful = @ + 1]]
                   /\ UNCHANGED batch_runs
              ELSE /\ proc' = [proc EXCEPT ![p] =
                                 [next EXCEPT !.pending = IF commits THEN <<>> ELSE added,
                                              !.successful = @ + 1]]
                   /\ UNCHANGED <<tableVars, inserted, batch_runs>>
    /\ UNCHANGED <<schedule, gameLogs, sportsbook_odds, data_readiness,
                   batch_execution_steps, faults, readinessLog>>
    /\ UNCHANGED <<featVars, svcVars, weekVars, anchor>>

\* after the loop: the final commit, then update_weekly completes the step
\* with the loop's successful count and generate_predictions.py sets the
\* run's metrics and warns if a player failed
FinishPredictions(p) ==
    /\ Me(p).pc = "pred_loop"
    /\ Me(p).todo = <<>>
    /\ LET committed == ~IntegrityError(Session(Me(p).pending))
           cleared == [Me(p) EXCEPT !.pending = <<>>]
       IN  /\ predictions' = IF committed THEN Flushed(Session(Me(p).pending))
                                          ELSE predictions
           /\ nextId' = IF committed THEN nextId + Len(Me(p).pending) ELSE nextId
           /\ inserted' =
                 IF committed
                 THEN [inserted EXCEPT ![Me(p).run_id].predictions =
                         @ \cup { Me(p).pending[k] : k \in 1..Len(Me(p).pending) }]
                 ELSE inserted
           /\ IF Me(p).script = "update_weekly"
              THEN StepSucceeds(p, cleared, "predictions_generated", Me(p).successful,
                                "odds")
              ELSE /\ batch_runs' = [batch_runs EXCEPT ![Me(p).run_id] =
                         increment_metric(
                             increment_metric(@, "predictions_generated", Me(p).successful),
                             "predictions_skipped", Me(p).skipped)]
                   /\ proc' = [proc EXCEPT ![p] =
                         [cleared EXCEPT
                             !.warnings = IF Me(p).failed > 0
                                          THEN add_warning(@, "prediction_generation",
                                                           "predictions failed to generate")
                                          ELSE @,
                             !.pc = "exit"]]
                   /\ UNCHANGED batch_execution_steps
    /\ UNCHANGED <<schedule, gameLogs, sportsbook_odds, data_readiness, faults, handed,
                   readinessLog>>
    /\ UNCHANGED <<featVars, svcVars, weekVars, anchor>>

\* an odds step that always takes order 3
odds_step_order_always_3(mode) == 3

\* step_order = 4 if mode == 'full' else 3
odds_step_order(mode) == IF mode = "full" THEN 4 ELSE 3

\* STEP 4: if mode in ['full', 'odds_only']: start_step
StartOdds(p) ==
    /\ Me(p).pc = "odds"
    /\ IF Me(p).mode \in {"full", "odds_only"}
       THEN StepStarts(p, "odds", odds_step_order(Me(p).mode), "odds_body")
       ELSE StepNotRun(p, "exit")
    /\ UNCHANGED <<schedule, gameLogs, sportsbook_odds, data_readiness, tableVars,
                   batch_runs, faults, handed, inserted, readinessLog>>
    /\ UNCHANGED <<featVars, svcVars, weekVars, anchor>>

\* STEP 4: sync_odds_for_next_week; a failed upsert is rolled back and raised
RunOdds(p) ==
    /\ Me(p).pc = "odds_body"
    /\ LET values == all_odds_values(Me(p).year, Me(p).week)
       IN  IF values # {} /\ faults.step = "odds"
           THEN /\ StepRaises(p, Me(p), "odds: upsert failed")
                /\ UNCHANGED sportsbook_odds
           ELSE /\ sportsbook_odds' = UpsertOdds(values)
                /\ StepSucceeds(p, Me(p), "odds_synced", Cardinality(values), "exit")
    /\ UNCHANGED <<schedule, gameLogs, data_readiness, tableVars, faults, handed,
                   inserted, readinessLog>>
    /\ UNCHANGED <<featVars, svcVars, weekVars, anchor>>

\* BatchTracker.__aexit__: the run's final status, then the readiness row
Exit(p) ==
    /\ Me(p).pc = "exit"
    /\ LET status == aexit_status(Me(p).exc, Me(p).warnings)
           after == IF status \in {"success", "partial"}
                    THEN update_data_readiness(Me(p).year, Me(p).week, Me(p).season_type)
                    ELSE data_readiness
       IN  /\ batch_runs' = [batch_runs EXCEPT ![Me(p).run_id] =
                 [@ EXCEPT !.status = status,
                           !.error_message = IF status = "failed" THEN Me(p).exc ELSE @,
                           !.errors_encountered = IF status = "failed" THEN 1 ELSE @,
                           !.warnings = IF status = "partial" THEN Me(p).warnings ELSE @]]
           /\ data_readiness' = after
           /\ readinessLog' = Append(readinessLog, after)
    /\ proc' = [proc EXCEPT ![p] = [@ EXCEPT !.pc = "done"]]
    /\ UNCHANGED <<schedule, gameLogs, sportsbook_odds, tableVars, batch_execution_steps,
                   faults, handed, inserted>>
    /\ UNCHANGED <<featVars, svcVars, weekVars, anchor>>

\* generate_predictions.py without --force: the players to predict, then
\* BatchTracker.__aenter__; with nobody to predict it returns at once
GpMain(p, configs) ==
    /\ Me(p).script = "none"
    /\ Me(p).pc = "idle"
    /\ \E cfg \in configs :
          LET todo == players_to_predict(cfg.year, cfg.week)
              started == [IdleProc EXCEPT !.script = "generate_predictions",
                                          !.year = cfg.year, !.week = cfg.week,
                                          !.runs = 1]
          IN  IF todo = <<>>
              THEN /\ proc' = [proc EXCEPT ![p] = [started EXCEPT !.pc = "done"]]
                   /\ UNCHANGED <<batch_runs, inserted>>
              ELSE /\ batch_runs' =
                         Append(batch_runs,
                                BatchRun(Len(batch_runs) + 1, "prediction_generation",
                                         "incremental", cfg.year, cfg.week, "reg"))
                   /\ inserted' = Append(inserted, [schedule |-> {}, game_logs |-> {}, predictions |-> {}])
                   /\ proc' = [proc EXCEPT ![p] =
                         [started EXCEPT !.pc = "pred_loop", !.todo = todo,
                                         !.skipped = Len(players_table) - Len(todo),
                                         !.run_id = Len(batch_runs) + 1]]
    /\ UNCHANGED <<schedule, gameLogs, sportsbook_odds, data_readiness, tableVars,
                   batch_execution_steps, faults, handed, readinessLog>>
    /\ UNCHANGED <<featVars, svcVars, weekVars, anchor>>

(***************************************************************************)
(* The database before the runs: the schedule and the week-1 game logs of  *)
(* both seasons, as earlier weekly runs left them.  The last roster player *)
(* has no game log yet.                                                    *)
(***************************************************************************)
InitTables ==
    /\ schedule = { Schedule(GameId(y, "reg", w, n), y, w, "reg") :
                      y \in RunYears, w \in 1..2, n \in 1..MaxGames }
    /\ gameLogs = { log \in UNION { get_game_logs_from_box_score(
                                        GameId(y, "reg", 1, n), y, 1) :
                                    y \in RunYears, n \in 1..MaxGames } :
                      log.player_id \in Roster \ {MaxPlayers} }
    /\ sportsbook_odds = {}
    /\ data_readiness = {}
    /\ predictions = {}
    /\ nextId = 1
    /\ batch_runs = <<>>
    /\ batch_execution_steps = <<>>
    /\ proc = [p \in Procs |-> IdleProc]
    /\ handed = {}
    /\ inserted = <<>>
    /\ readinessLog = <<>>

\* what can fail around a run: the scorer for up to MaxBadPlayers players,
\* the provider for one game number, and the database in one step
MaxBadPlayers == 2

Faults ==
    { f \in [badPlayers : SUBSET Roster, badGames : SUBSET (1..MaxGames),
             step : StepNames \cup {"none"}] :
        /\ Cardinality(f.badPlayers) <= MaxBadPlayers
        /\ Cardinality(f.badGames) <= 1 }

InitBatch ==
    /\ InitTables
    /\ faults \in Faults
    /\ FeatIdle
    /\ SvcIdle
    /\ WeekIdle

\* one process runs update_weekly.py, MaxRuns times in a row
BatchNext ==
    \E p \in {1} :
        \/ Main(p, Configs)
        \/ StartSchedule(p)
        \/ RunSchedule(p)
        \/ StartGameLogs(p)
        \/ RunGameLogs(p)
        \/ StartPredictions(p)
        \/ SelectPlayers(p)
        \/ PredictPlayer(p)
        \/ FinishPredictions(p)
        \/ StartOdds(p)
        \/ RunOdds(p)
        \/ Exit(p)

SpecBatch == InitBatch /\ [][BatchNext]_vars

\* the anchor of two runs that generate predictions for the same week
RaceConfigs ==
    { cfg \in Configs : /\ cfg.mode = "full"
                        /\ cfg.year = NFL_SEASON_YEAR
                        /\ cfg.season_type = "reg" }

InitRace ==
    /\ InitTables
    /\ faults \in { f \in Faults : f.badGames = {} /\ f.step = "none" }
    /\ FeatIdle
    /\ SvcIdle
    /\ WeekIdle

\* process 1 runs update_weekly.py while process 2 runs generate_predictions.py
RaceNext ==
    \/ Main(1, RaceConfigs)
    \/ StartSchedule(1)
    \/ RunSchedule(1)
    \/ StartGameLogs(1)
    \/ RunGameLogs(1)
    \/ StartPredictions(1)
    \/ SelectPlayers(1)
    \/ StartOdds(1)
    \/ RunOdds(1)
    \/ GpMain(2, RaceConfigs)
    \/ \E p \in Procs : PredictPlayer(p) \/ FinishPredictions(p) \/ Exit(p)

SpecRace == InitRace /\ [][RaceNext]_vars

(***************************************************************************)
(* Properties of the weekly batch.                                         *)
(***************************************************************************)
\* C2: every game log handed to the feature builder by a run anchored to
\* (season S, week W) has season_year = S and week < W, for every S and W.
C2_HandedLogsOfRunSeason ==
    \A h \in handed : h.log.season_year = h.season_year /\ h.log.week < h.week

\* the part of C2 the code satisfies: no handed log is of week W or later
C2_HandedLogsBeforeWeek ==
    \A h \in handed : h.log.week < h.week

\* the steps of a run, as ids in the order they were started
StepsOf(r) ==
    { k \in 1..Len(batch_execution_steps) : batch_execution_steps[k].batch_run_id = r }

Terminal == {"success", "failed", "skipped"}

\* the process has finished its second invocation
RanTwice(p) == Me(p).runs = 2 /\ Me(p).pc = "done"

\* C5: the second of two runs of one configuration inserts no game log and
\* no prediction, and leaves the data_readiness counts as the first did.
C5_SecondRunInsertsNothing ==
    RanTwice(1) =>
        /\ inserted[2].game_logs = {}
        /\ inserted[2].predictions = {}
        /\ readinessLog[2] = readinessLog[1]

\* the part of C5 the code satisfies: no game log is inserted twice
C5_SecondRunInsertsNoGameLog ==
    RanTwice(1) => inserted[2].game_logs = {}

\* with no player failing in the loop the second run inserts nothing
C5_IdempotentWithoutFailures ==
    (RanTwice(1) /\ faults.badPlayers = {}) =>
        /\ inserted[2].game_logs = {}
        /\ inserted[2].predictions = {}
        /\ readinessLog[2] = readinessLog[1]

\* the run a process is in, or has just finished
CurrentRun(p) == batch_runs[Me(p).run_id]

\* C6: a BatchRun is running until it ends, and it ends failed exactly when
\* an exception escaped the run body, else partial exactly when a warning
\* was recorded, else success.
C6_RunStatus ==
    /\ \A r \in 1..Len(batch_runs) :
          batch_runs[r].status \in {"running", "success", "partial", "failed"}
    /\ \A p \in Procs :
          Me(p).run_id # 0 =>
             IF Me(p).pc # "done"
             THEN CurrentRun(p).status = "running"
             ELSE /\ CurrentRun(p).status = "failed" <=> Me(p).exc # Null
                  /\ CurrentRun(p).status = "partial" <=>
                        (Me(p).exc = Null /\ Me(p).warnings # <<>>)
                  /\ CurrentRun(p).status = "success" <=>
                        (Me(p).exc = Null /\ Me(p).warnings = <<>>)

\* a run ended partial
C6_Witness ==
    \E p \in Procs :
        /\ Me(p).pc = "done"
        /\ Me(p).run_id # 0
        /\ CurrentRun(p).status = "partial"
        /\ Me(p).warnings # <<>>

\* the rows a run committed are in the tables
RowsPresent(r) ==
    /\ inserted[r].schedule \subseteq schedule
    /\ inserted[r].game_logs \subseteq gameLogs
    /\ \A row \in inserted[r].predictions :
          \E x \in predictions : KeyOf(x) = KeyOf(row) /\ ValuesOf(x) = ValuesOf(row)

\* C7: when an exception escapes a step, the step is failed with the message,
\* it is the last step the run started, the run ends failed, and the rows
\* the run committed before are still stored.
C7_StepFailure ==
    \A p \in Procs :
        (Me(p).run_id # 0 /\ Me(p).exc # Null) =>
            LET r == Me(p).run_id
                last == CHOOSE k \in StepsOf(r) : \A j \in StepsOf(r) : j <= k
            IN  /\ StepsOf(r) # {}
                /\ batch_execution_steps[last].status = "failed"
                /\ batch_execution_steps[last].error_message = Me(p).exc
                /\ \A j \in StepsOf(r) \ {last} :
                      batch_execution_steps[j].status \in {"success", "skipped"}
                /\ Me(p).pc \in {"exit", "done"}
                /\ Me(p).pc = "done" => batch_runs[r].status = "failed"
                /\ RowsPresent(r)

\* a run failed in a step after an earlier step had committed rows
C7_Witness ==
    \E p \in Procs :
        /\ Me(p).run_id # 0
        /\ Me(p).exc # Null
        /\ Me(p).pc = "done"
        /\ inserted[Me(p).run_id].schedule # {}
        /\ Cardinality(StepsOf(Me(p).run_id)) >= 2

StepRank(step_name) ==
    CASE step_name = "schedule" -> 1
      [] step_name = "game_logs" -> 2
      [] step_name = "predictions" -> 3
      [] step_name = "odds" -> 4

FailedGames(p) ==
    { g \in CompletedGames(Me(p).year, Me(p).week) : g.game_id[4] \in faults.badGames }

\* the finished game_logs steps of the run of process p
GameLogsSteps(p) ==
    { k \in StepsOf(Me(p).run_id) :
        /\ batch_execution_steps[k].step_name = "game_logs"
        /\ batch_execution_steps[k].status \in Terminal }

\* C9: when the box-score fetch fails for exactly one game of a game_logs
\* step, the step does not fail, the other games are processed, and
\* records_processed is the number of logs inserted from the other games.
C9_OneFetchFailure ==
    \A p \in Procs :
        (/\ Me(p).run_id # 0
         /\ Me(p).season_type = "reg"
         /\ faults.step # "game_logs"
         /\ Cardinality(FailedGames(p)) = 1) =>
            \A k \in GameLogsSteps(p) :
                /\ batch_execution_steps[k].status = "success"
                /\ \A g \in CompletedGames(Me(p).year, Me(p).week) \ FailedGames(p) :
                      \A i \in PlayersIn(g.game_id) :
                          \E log \in gameLogs :
                              log.player_id = i /\ log.game_id = g.game_id
                /\ batch_execution_steps[k].records_processed =
                      Cardinality(inserted[Me(p).run_id].game_logs)
                /\ \A log \in inserted[Me(p).run_id].game_logs :
                      log.game_id[4] \notin faults.badGames

\* a game_logs step that inserted logs although one fetch failed
C9_Witness ==
    \E p \in Procs :
        /\ Me(p).run_id # 0
        /\ Me(p).season_type = "reg"
        /\ faults.step # "game_logs"
        /\ Cardinality(FailedGames(p)) = 1
        /\ Cardinality(CompletedGames(Me(p).year, Me(p).week)) >= 2
        /\ \E k \in GameLogsSteps(p) : batch_execution_steps[k].records_processed > 0

\* both prediction runs have finished
BothFinished ==
    /\ Me(1).pc = "done"
    /\ Me(1).runs >= 1
    /\ Me(2).pc = "done"
    /\ Me(1).year = Me(2).year
    /\ Me(1).week = Me(2).week

RowsFor(player_id, season_year, week) ==
    { r \in predictions : /\ r.player_id = player_id
                          /\ r.season_year = season_year
                          /\ r.week = week }

\* C10: when two prediction runs for one week interleave, no run ends
\* failed and, once both have finished, every player the scorer can score
\* has exactly one prediction for the week.
C10_ConcurrentRuns ==
    /\ \A r \in 1..Len(batch_runs) : batch_runs[r].status # "failed"
    /\ BothFinished =>
          \A i \in Roster \ faults.badPlayers :
              Cardinality(RowsFor(i, Me(1).year, Me(1).week)) = 1

\* the parts of C10 the code satisfies: no run ends failed, and no player
\* has two rows
C10_NoRunFailsNoDuplicate ==
    /\ \A r \in 1..Len(batch_runs) : batch_runs[r].status # "failed"
    /\ \A i \in Roster : Cardinality(RowsFor(i, NFL_SEASON_YEAR, Me(1).week)) <= 1

\* C10 where only the first player of the roster fails, so that no row is
\* ever discarded by the rollback of a failed player
C10_FirstPlayerFailsOnly ==
    (BothFinished /\ faults.badPlayers = {players_table[1]}) =>
        \A i \in Roster \ faults.badPlayers :
            Cardinality(RowsFor(i, Me(1).year, Me(1).week)) = 1

\* C10 with no failing player: every player has exactly one row
C10_WithoutFailures ==
    (BothFinished /\ faults.badPlayers = {}) =>
        \A i \in Roster : Cardinality(RowsFor(i, Me(1).year, Me(1).week)) = 1

(***************************************************************************)
(* Uniqueness of prediction keys.                                          *)
(***************************************************************************)
\* C11: in every reachable state, with API writes and batch writes
\* interleaved, the predictions table holds at most one row per
\* (player_id, season_year, week).
C11_OneRowPerKey ==
    \A r1, r2 \in predictions : KeyOf(r1) = KeyOf(r2) => r1 = r2

\* two sessions raced on an absent key: one row is stored and the other
\* session's commit was refused
C11_Witness ==
    \E i \in 1..Len(writeLog) :
        /\ writeLog[i].report = "error"
        /\ ~writeLog[i].existed
        /\ Existing(StoreKey(writeLog[i].player_id)) # {}

(***************************************************************************)
(* The week resolver: app/utils/nfl_calendar.py.  The clock counts seconds *)
(* from Monday 2025-12-22 00:00; the server's local time and US/Eastern    *)
(* are taken to be the same clock.                                         *)
(***************************************************************************)
LastDay == 55
MaxScheduled == 3
Day == 86400

\* the day a clock value falls in, counted from 2025-12-22
DayOf(now) == now \div Day

\* strftime("%Y%m%d") of the day d, as the number its digits spell; strings
\* of eight digits compare as these numbers do
Ymd(d) ==
    IF d <= 9 THEN 20251222 + d
    ELSE IF d <= 40 THEN 20260100 + (d - 9)
    ELSE IF d <= 68 THEN 20260200 + (d - 40)
    ELSE 20260300 + (d - 68)

\* datetime.year
YearOf(d) == Ymd(d) \div 10000

\* datetime.weekday(): 0 = Monday ... 6 = Sunday (day 0 is a Monday)
weekday(d) == d % 7

\* a row of the schedule table, as far as the resolver reads it
Game(d, season_year, week, season_type) ==
    [game_date |-> Ymd(d), season_year |-> season_year, week |-> week,
     season_type |-> season_type]

\* the games of the end of the 2025 season the schedule can hold
Fixture ==
    { Game(0, 2025, 16, "reg"), Game(3, 2025, 17, "reg"), Game(6, 2025, 17, "reg"),
      Game(12, 2025, 18, "reg"), Game(13, 2025, 18, "reg"),
      Game(19, 2025, 1, "post"), Game(21, 2025, 1, "post"),
      Game(27, 2025, 2, "post"),
      Game(34, 2025, 3, "post"),
      Game(48, 2025, 4, "post") }

\* (season_year, week, season_type) of a row
Triple(g) == [year |-> g.season_year, week |-> g.week, season_type |-> g.season_type]

\* .order_by(game_date, week).limit(1): the rows that can come first
FirstByDateWeek(rows) ==
    { g \in rows : \A h \in rows :
        g.game_date < h.game_date \/ (g.game_date = h.game_date /\ g.week <= h.week) }

\* .order_by(game_date.desc(), week.desc()).limit(1)
LastByDateWeek(rows) ==
    { g \in rows : \A h \in rows :
        g.game_date > h.game_date \/ (g.game_date = h.game_date /\ g.week >= h.week) }

\* .order_by(game_date.desc()).limit(1)
LastByDate(rows) == { g \in rows : \A h \in rows : g.game_date >= h.game_date }

\* .order_by(week).limit(1)
FirstByWeek(rows) == { g \in rows : \A h \in rows : g.week <= h.week }

\* lookahead_days
lookahead_days == 4

\* the branch that infers the next week from last_game
InferNext(sched, last_game) ==
    IF last_game.season_type = "reg" /\ last_game.week = 18
    THEN LET playoffs == { g \in sched : /\ g.season_year = last_game.season_year
                                         /\ g.season_type = "post" }
         IN  IF playoffs # {}
             THEN { [year |-> last_game.season_year, week |-> g.week,
                     season_type |-> "post"] : g \in FirstByWeek(playoffs) }
             ELSE { [year |-> last_game.season_year + 1, week |-> 1,
                     season_type |-> "reg"] }
    ELSE IF last_game.season_type = "post"
    THEN LET later == { g \in sched : /\ g.season_year = last_game.season_year
                                      /\ g.season_type = "post"
                                      /\ g.week > last_game.week }
         IN  IF later # {}
             THEN { [year |-> last_game.season_year, week |-> g.week,
                     season_type |-> "post"] : g \in FirstByWeek(later) }
             ELSE { [year |-> last_game.season_year + 1, week |-> 1,
                     season_type |-> "reg"] }
    ELSE { [year |-> last_game.season_year, week |-> last_game.week + 1,
            season_type |-> "reg"] }

\* the games from today through today + lookahead_days
Upcoming(sched, d) ==
    { g \in sched : g.game_date >= Ymd(d) /\ g.game_date <= Ymd(d + lookahead_days) }

\* a forward-looking rule that never looks at the upcoming games
LookForwardFromLast(sched, d) ==
    IF sched # {}
    THEN UNION { InferNext(sched, last_game) : last_game \in LastByDateWeek(sched) }
    ELSE { [year |-> YearOf(d), week |-> 1, season_type |-> "reg"] }

\* the forward-looking part of the resolver: the values it can return
LookForward(sched, d) ==
    IF Upcoming(sched, d) # {}
    THEN { Triple(g) : g \in FirstByDateWeek(Upcoming(sched, d)) }
    ELSE IF sched # {}
    THEN UNION { InferNext(sched, last_game) : last_game \in LastByDateWeek(sched) }
    ELSE { [year |-> YearOf(d), week |-> 1, season_type |-> "reg"] }

\* a resolver without the Monday rule
resolver_without_monday_rule(sched, now) == LookForward(sched, DayOf(now))

\* get_current_nfl_week_from_schedule: the values it can return at clock now
get_current_nfl_week_from_schedule(sched, now) ==
    LET d == DayOf(now)
        mnf == { g \in sched : g.game_date = Ymd(d) }
        recent == { g \in sched : g.game_date < Ymd(d) }
    IN  IF weekday(d) = 1
        THEN LookForward(sched, d)
        ELSE IF weekday(d) = 0
        THEN IF mnf # {}
             THEN { Triple(g) : g \in mnf }
             ELSE IF recent # {}
             THEN { Triple(g) : g \in LastByDate(recent) }
             ELSE LookForward(sched, d)
        ELSE LookForward(sched, d)

\* timedelta.days of (now - start), start given as a day: the floor.  The
\* season starts are midnights of daylight time and the clock runs in
\* standard time, so an hour more has elapsed than the wall clocks show.
DaysSince(now, start_day) == (now + 3600 - start_day * Day) \div Day

\* datetime(y, m, d, 23, 59) of the day d
EndOf(d) == d * Day + 23 * 3600 + 59 * 60

\* min(days_since_start // 7 + 1, 18)
WeekSince(now, start_day) ==
    LET w == DaysSince(now, start_day) \div 7 + 1
    IN  IF w < 18 THEN w ELSE 18

\* _fallback_week_detection: (year, week) at clock now.  2025-09-04 is day
\* -109, 2026-01-05 day 14, 2026-02-09 day 49, 2026-09-10 day 262,
\* 2024-09-05 day -473.
fallback_week_detection(now) ==
    LET year == YearOf(DayOf(now))
    IN  IF year = 2025
        THEN IF now < -109 * Day
             THEN <<2025, 1>>
             ELSE <<2025, WeekSince(now, -109)>>
        ELSE IF year = 2026
        THEN IF now <= EndOf(14) THEN <<2025, 18>>
             ELSE IF 15 * Day <= now /\ now <= EndOf(21) THEN <<2025, 18>>
             ELSE IF 22 * Day <= now /\ now <= EndOf(28) THEN <<2025, 18>>
             ELSE IF 29 * Day <= now /\ now <= EndOf(35) THEN <<2025, 18>>
             ELSE IF EndOf(35) < now /\ now <= EndOf(49) THEN <<2025, 18>>
             ELSE IF EndOf(49) < now /\ now < 262 * Day THEN <<2026, 1>>
             ELSE <<2026, WeekSince(now, 262)>>
        ELSE IF year = 2024
        THEN IF now < -473 * Day
             THEN <<2024, 1>>
             ELSE <<2024, WeekSince(now, -473)>>
        ELSE <<year, 1>>

\* get_current_nfl_week: the schedule's answer, or the calendar's when the
\* query raises
get_current_nfl_week(sched, now, down) ==
    IF down
    THEN { [year |-> fallback_week_detection(now)[1],
            week |-> fallback_week_detection(now)[2], season_type |-> "reg"] }
    ELSE get_current_nfl_week_from_schedule(sched, now)

\* the times of day the clock is read at: 00:00:00, 12:00:00, 23:59:00 and
\* 23:59:30
Instants == {0, 43200, 86340, 86370}

WeekInit ==
    /\ wkSchedule = {}
    /\ wkNow = 0
    /\ wkDown = FALSE
    /\ wkOut = <<>>

\* update_schedule stores a game
ScheduleGame ==
    /\ Cardinality(wkSchedule) < MaxScheduled
    /\ \E g \in Fixture \ wkSchedule : wkSchedule' = wkSchedule \cup {g}
    /\ wkOut' = <<>>
    /\ UNCHANGED <<wkNow, wkDown>>
    /\ UNCHANGED <<featVars, storeVars, batchVars, anchor>>

\* time passes to the next instant
Tick ==
    /\ \E t \in { DayOf(wkNow) * Day + i : i \in Instants }
              \cup { (DayOf(wkNow) + 1) * Day } :
          /\ t > wkNow
          /\ \A u \in { DayOf(wkNow) * Day + i : i \in Instants } : u > wkNow => t <= u
          /\ DayOf(t) <= LastDay
          /\ wkNow' = t
    /\ wkOut' = <<>>
    /\ UNCHANGED <<wkSchedule, wkDown>>
    /\ UNCHANGED <<featVars, storeVars, batchVars, anchor>>

\* the database becomes unreachable, or reachable again
Outage ==
    /\ wkDown' = ~wkDown
    /\ wkOut' = <<>>
    /\ UNCHANGED <<wkSchedule, wkNow>>
    /\ UNCHANGED <<featVars, storeVars, batchVars, anchor>>

\* a caller asks for the current week
Resolve ==
    /\ wkOut = <<>>
    /\ \E r \in get_current_nfl_week(wkSchedule, wkNow, wkDown) :
          wkOut' = <<[result |-> r, today |-> DayOf(wkNow)]>>
    /\ UNCHANGED <<wkSchedule, wkNow, wkDown>>
    /\ UNCHANGED <<featVars, storeVars, batchVars, anchor>>

WeekNext == ScheduleGame \/ Tick \/ Outage \/ Resolve

InitWeek == WeekInit /\ anchor = <<>> /\ FeatIdle /\ StoreIdle /\ BatchIdle

SpecWeek == InitWeek /\ [][WeekNext]_vars

\* a call has returned; its result and the day it was made on
Resolved == wkOut # <<>>
Result == wkOut[1].result
Today == wkOut[1].today

\* the games dated before the day d, and the latest of them
PastGames(d) == { g \in wkSchedule : g.game_date < Ymd(d) }
MostRecentPast(d) == LastByDate(PastGames(d))

\* the call took the forward-looking rule: it was not answered by the
\* Monday rule
ForwardRule(d) ==
    \/ weekday(d) # 0
    \/ /\ PastGames(d) = {}
       /\ \A g \in wkSchedule : g.game_date # Ymd(d)

\* the answer the week after the game g calls for
NextAfter(g) ==
    LET rounds == { h \in wkSchedule : /\ h.season_year = g.season_year
                                       /\ h.season_type = "post"
                                       /\ (g.season_type = "post" => h.week > g.week) }
        first == CHOOSE h \in rounds : \A k \in rounds : h.week <= k.week
    IN  IF (g.season_type = "reg" /\ g.week = 18) \/ g.season_type = "post"
        THEN IF rounds # {}
             THEN [year |-> g.season_year, week |-> first.week, season_type |-> "post"]
             ELSE [year |-> g.season_year + 1, week |-> 1, season_type |-> "reg"]
        ELSE [year |-> g.season_year, week |-> g.week + 1,
              season_type |-> g.season_type]

\* no game is scheduled from the day of the call through the horizon
NothingUpcoming == Upcoming(wkSchedule, Today) = {}

\* C12: with no game within the look-ahead horizon the answer is derived
\* from the game with the latest date before today: after regular week 18
\* the first scheduled playoff week, after a playoff week the next scheduled
\* round, in both cases (year+1, 1, reg) if none is scheduled, after any
\* other week week+1; with no schedule rows (calendar year, 1, reg).
C12_FromMostRecentPastGame ==
    (Resolved /\ ~wkDown /\ ForwardRule(Today) /\ NothingUpcoming) =>
        /\ wkSchedule = {} =>
              Result = [year |-> YearOf(Today), week |-> 1, season_type |-> "reg"]
        /\ PastGames(Today) # {} =>
              \E g \in MostRecentPast(Today) : Result = NextAfter(g)

\* what the code does: the answer is derived from the game with the latest
\* date of the whole schedule, past or not
C12_FromLatestScheduledGame ==
    (Resolved /\ ~wkDown /\ ForwardRule(Today) /\ NothingUpcoming) =>
        /\ wkSchedule = {} =>
              Result = [year |-> YearOf(Today), week |-> 1, season_type |-> "reg"]
        /\ wkSchedule # {} =>
              \E g \in LastByDateWeek(wkSchedule) : Result = NextAfter(g)

\* C12 holds when no game is scheduled after the horizon
C12_WithNoLaterGame ==
    (/\ Resolved /\ ~wkDown /\ ForwardRule(Today) /\ NothingUpcoming
     /\ \A g \in wkSchedule : g.game_date < Ymd(Today)) =>
        /\ wkSchedule = {} =>
              Result = [year |-> YearOf(Today), week |-> 1, season_type |-> "reg"]
        /\ PastGames(Today) # {} =>
              \E g \in MostRecentPast(Today) : Result = NextAfter(g)

\* the games dated on the day d
GamesOn(d) == { g \in wkSchedule : g.game_date = Ymd(d) }

\* C13: on a Monday the answer is the week of a game scheduled today; with
\* no game today, the week of the game with the latest date before today;
\* only with neither, the forward-looking rule's answer.
C13_MondayRule ==
    (Resolved /\ ~wkDown /\ weekday(Today) = 0) =>
        /\ GamesOn(Today) # {} => \E g \in GamesOn(Today) : Result = Triple(g)
        /\ (GamesOn(Today) = {} /\ PastGames(Today) # {}) =>
              \E g \in MostRecentPast(Today) : Result = Triple(g)
        /\ (GamesOn(Today) = {} /\ PastGames(Today) = {}) =>
              /\ ~NothingUpcoming =>
                    \E g \in FirstByDateWeek(Upcoming(wkSchedule, Today)) :
                        Result = Triple(g)
              /\ wkSchedule = {} =>
                    Result = [year |-> YearOf(Today), week |-> 1, season_type |-> "reg"]

\* a Monday without a game on which the just-completed week is still the
\* answer
C13_Witness ==
    /\ Resolved
    /\ ~wkDown
    /\ weekday(Today) = 0
    /\ GamesOn(Today) = {}
    /\ \E g \in MostRecentPast(Today) : Result = Triple(g)

\* the games dated from the day d through four days later
WithinHorizon(d) ==
    { g \in wkSchedule : \E k \in 0..4 : g.game_date = Ymd(d + k) }

\* C14: from Tuesday through Sunday, when a game is dated from today
\* through today + 4 days, the answer is the week of the game with the
\* earliest such date.
C14_NearestUpcomingGame ==
    (Resolved /\ ~wkDown /\ weekday(Today) # 0 /\ WithinHorizon(Today) # {}) =>
        \E g \in WithinHorizon(Today) :
            /\ \A h \in WithinHorizon(Today) : g.game_date <= h.game_date
            /\ Result = Triple(g)

\* a Tuesday on which the nearest game is four days ahead, with an earlier
\* game already played
C14_Witness ==
    /\ Resolved
    /\ ~wkDown
    /\ weekday(Today) = 1
    /\ PastGames(Today) # {}
    /\ GamesOn(Today + 4) # {}
    /\ \A k \in 0..3 : GamesOn(Today + k) = {}
    /\ \E g \in GamesOn(Today + 4) : Result = Triple(g)

\* C15: when the schedule query raises, get_current_nfl_week returns the
\* calendar's answer: season type regular and a week within 1..18, which
\* during the 2025 season is min(18, floor(days since 2025-09-04 / 7) + 1).
C15_FallbackWeek ==
    (Resolved /\ wkDown) =>
        /\ Result.season_type = "reg"
        /\ Result.week \in 1..18
        /\ YearOf(DayOf(wkNow)) = 2025 =>
              LET days == (wkNow + 3600 + 109 * Day) \div Day
              IN  Result.week = IF days \div 7 + 1 < 18 THEN days \div 7 + 1 ELSE 18

\* the part of C15 the code satisfies: the answer is always of the regular
\* season, and its week is within 1..18 except in the last minute of a day
C15_FallbackRegular ==
    (Resolved /\ wkDown) =>
        /\ Result.season_type = "reg"
        /\ wkNow % Day <= 86340 => Result.week \in 1..18

(***************************************************************************)
(* The command line of update_weekly.py: what main anchors the run to.     *)
(* An argument that was not given is 0 (week, year: None and 0 both test   *)
(* false) or Null (season type); an unset BATCH_RUN_ID is 0.               *)
(***************************************************************************)
ArgWeeks == {0, 5}
ArgYears == {0, 2024}
ArgSeasonTypes == {Null, "post"}

\* the command line and the environment of one invocation
Invocations ==
    [mode : Modes, week : ArgWeeks, year : ArgYears, season_type : ArgSeasonTypes,
     BATCH_RUN_ID : 0..(MaxRuns + 1), confirmed : BOOLEAN]

\* a mode validation that asks odds_only for --week only
mode_validation_week_only(inv) == inv.mode = "odds_only" /\ inv.week = 0

\* main's mode validation: the invocation is rejected (sys.exit(1))
mode_validation(inv) == inv.mode = "odds_only" /\ (inv.week = 0 \/ inv.year = 0)

\* main, up to the call of _execute_batch_steps: how the invocation ends
\* ("run", or why there is no run) and the season, week and season type
\* the steps are called with.  detected is get_current_nfl_week()'s answer,
\* runs the batch_runs table.
main_anchor(inv, detected, runs) ==
    LET given == inv.week # 0 /\ inv.year # 0
        current_season == IF given THEN inv.year ELSE detected.year
        current_week == IF given THEN inv.week ELSE detected.week
        season_type == IF given
                       THEN (IF inv.season_type # Null THEN inv.season_type ELSE "reg")
                       ELSE detected.season_type
    IN  IF mode_validation(inv)
        THEN [outcome |-> "usage_error", run_id |-> 0, current_season |-> 0,
              current_week |-> 0, season_type |-> Null]
        ELSE IF inv.mode # "odds_only" /\ ~inv.confirmed
        THEN [outcome |-> "cancelled", run_id |-> 0, current_season |-> 0,
              current_week |-> 0, season_type |-> Null]
        ELSE IF inv.BATCH_RUN_ID # 0
        THEN IF inv.BATCH_RUN_ID \in 1..Len(runs)
             THEN [outcome |-> "run", run_id |-> inv.BATCH_RUN_ID,
                   current_season |-> runs[inv.BATCH_RUN_ID].season_year,
                   current_week |-> runs[inv.BATCH_RUN_ID].week,
                   season_type |-> runs[inv.BATCH_RUN_ID].season_type]
             ELSE [outcome |-> "not_found", run_id |-> 0, current_season |-> 0,
                   current_week |-> 0, season_type |-> Null]
        ELSE [outcome |-> "run", run_id |-> Len(runs) + 1,
              current_season |-> current_season, current_week |-> current_week,
              season_type |-> season_type]

\* the database and provider calls main makes up to the call of
\* _execute_batch_steps, in order
main_calls(inv, detected, runs) ==
    LET a == main_anchor(inv, detected, runs)
        detect == IF inv.week # 0 /\ inv.year # 0 THEN <<>>
                  ELSE <<"get_current_nfl_week">>
    IN  CASE a.outcome = "usage_error" -> <<>>
          [] a.outcome = "cancelled" -> detect
          [] a.outcome = "not_found" -> detect \o <<"select BatchRun">>
          [] a.outcome = "run" /\ inv.BATCH_RUN_ID # 0 ->
                detect \o <<"select BatchRun", "commit BatchRun">>
          [] OTHER -> detect \o <<"commit BatchRun">>

\* python update_weekly.py ...: main anchors the run and enters its tracker
Invoke ==
    /\ anchor = <<>>
    /\ \E inv \in Invocations :
       \E detected \in get_current_nfl_week(wkSchedule, wkNow, wkDown) :
          LET a == main_anchor(inv, detected, batch_runs)
          IN  /\ anchor' = <<[mode |-> inv.mode, week |-> inv.week, year |-> inv.year,
                               BATCH_RUN_ID |-> inv.BATCH_RUN_ID, a |-> a,
                               calls |-> main_calls(inv, detected, batch_runs),
                               runs_before |-> Len(batch_runs)]>>
              /\ batch_runs' =
                    IF a.outcome = "run" /\ a.run_id = Len(batch_runs) + 1
                    THEN Append(batch_runs,
                                BatchRun(a.run_id, "weekly_update", inv.mode,
                                         a.current_season, a.current_week, a.season_type))
                    ELSE batch_runs
    /\ UNCHANGED <<schedule, gameLogs, sportsbook_odds, data_readiness,
                   batch_execution_steps, proc, faults, handed, inserted, readinessLog>>
    /\ UNCHANGED <<featVars, storeVars, weekVars>>

\* the schedule, the clock and the batch_runs table of an invocation: the
\* table is empty or holds the finished run of an earlier week
AnchorInit ==
    /\ batch_runs \in
          {<<>>, <<[BatchRun(1, "weekly_update", "full", NFL_SEASON_YEAR, 17, "reg")
                      EXCEPT !.status = "success"]>>}
    /\ wkSchedule \in {{}, Fixture}
    /\ wkNow \in {8 * Day, 15 * Day, 50 * Day}
    /\ wkDown \in BOOLEAN
    /\ wkOut = <<>>
    /\ anchor = <<>>

InitAnchor ==
    /\ AnchorInit
    /\ FeatIdle
    /\ StoreIdle
    /\ schedule = {}
    /\ gameLogs = {}
    /\ sportsbook_odds = {}
    /\ data_readiness = {}
    /\ batch_execution_steps = <<>>
    /\ proc = <<>>
    /\ faults = <<>>
    /\ handed = {}
    /\ inserted = <<>>
    /\ readinessLog = <<>>

AnchorNext == Invoke

SpecAnchor == InitAnchor /\ [][AnchorNext]_vars

\* the last invocation gave both --week and --year and led to a run
OverrideGiven ==
    /\ anchor # <<>>
    /\ anchor[1].week # 0
    /\ anchor[1].year # 0
    /\ anchor[1].a.outcome = "run"

\* the run of the last invocation is anchored to the given week and year
AnchoredToGiven ==
    /\ anchor[1].a.current_season = anchor[1].year
    /\ anchor[1].a.current_week = anchor[1].week
    /\ batch_runs[anchor[1].a.run_id].season_year = anchor[1].year
    /\ batch_runs[anchor[1].a.run_id].week = anchor[1].week

\* C16: when --week and --year are given, the run is anchored to exactly
\* those values, in every mode and whatever else the invocation is given.
C16_OverrideAnchorsRun ==
    OverrideGiven => AnchoredToGiven

\* the part of C16 the code satisfies: with BATCH_RUN_ID unset the given
\* week and year anchor the run, in every mode
C16_OverrideWithoutBatchRunId ==
    (OverrideGiven /\ anchor[1].BATCH_RUN_ID = 0) => AnchoredToGiven

(***************************************************************************)
(* Elements of the feature vector (SpecFeat).                              *)
(***************************************************************************)
\* the history of the first input: its games of season fbYear and week <
\* fbWeek, sorted by week
History == SortLogs(CurrentSeasonLogs(fbLogsA, fbYear, fbWeek))

\* the games of the history no other game of it is later than
MostRecentGames == { i \in 1..Len(History) : \A j \in 1..Len(History) :
                        History[j].week <= History[i].week }

\* the vector built for fbWeek from the history
Vector == fbOut.csA

\* C17: for a non-empty history of games with week < W, lag_yards (the
\* second element) is the receiving_yards of the most recent of the games.
C17_LagYardsOfMostRecentGame ==
    (fbPc = "built" /\ History # <<>>) =>
        \E i \in MostRecentGames : Vector[2] = Flt(History[i].receiving_yards)

\* what the code computes: lag_yards is the receiving_yards of the game
\* before the most recent one, and 0 for a history of one game
C17_LagYardsOfGameBefore ==
    (fbPc = "built" /\ History # <<>>) =>
        Vector[2] = IF Len(History) = 1 THEN Flt(0)
                    ELSE Flt(History[Len(History) - 1].receiving_yards)

\* C18: for a non-empty history, is_first_week (the eleventh element) is 1
\* exactly when the history holds a single game, and 0 when it holds more.
C18_FirstWeekFlag ==
    (fbPc = "built" /\ History # <<>>) =>
        Vector[11] = IF Len(History) = 1 THEN Flt(1) ELSE Flt(0)

\* what the code computes: is_first_week is 0 for every non-empty history
C18_FirstWeekFlagAlwaysZero ==
    (fbPc = "built" /\ History # <<>>) => Vector[11] = Flt(0)

\* the vector [W, 0, 0, 0, 0, 0, 0, 0, 0, 0, 1]
Baseline(W) == [k \in 1..11 |-> IF k = 1 THEN Flt(W) ELSE IF k = 11 THEN Flt(1) ELSE Flt(0)]

\* C19: for any target week W, the features built from an empty history
\* are exactly [W, 0, 0, 0, 0, 0, 0, 0, 0, 0, 1], never a null result.
C19_EmptyHistoryBaseline ==
    (fbPc = "built" /\ fbLogsA = <<>>) =>
        /\ fbOut.pfA = Baseline(fbWeek)
        /\ fbOut.csA = Baseline(fbWeek)

\* the part of C19 the code satisfies: extract_features_for_current_season
\* returns the baseline for an empty history when the target week is 1
C19_EmptyHistoryWeekOne ==
    (fbPc = "built" /\ History = <<>> /\ fbWeek = 1) => Vector = Baseline(1)

(***************************************************************************)
(* The scorer: TDModelService.predict_td_probability behind                *)
(* validate_features, called from the body of the prediction loop and      *)
(* directly (SpecScore).  The loop scores two players: the first with the  *)
(* game logs fbLogsA, the second with fbLogsB.                             *)
(***************************************************************************)
\* a validation that checks the shape only
validate_shape_only(features) == features # None /\ Len(features) = 11

\* validate_features
validate_features(features) ==
    /\ features # None
    /\ Len(features) = 11
    /\ ~\E k \in 1..Len(features) : IsNaN(features[k])
    /\ ~\E k \in 1..Len(features) : IsInf(features[k])

\* predict_td_probability: whether it raises, and whether model.predict_proba
\* was invoked on the features
predict_td_probability(features) ==
    IF ~validate_features(features)
    THEN [raised |-> "ValueError", invoked |-> FALSE]
    ELSE [raised |-> Null, invoked |-> TRUE]

\* the try block of the loop for one player: the features it builds, the
\* scorer's call, and whether a Prediction was added to the session
LoopBody(game_logs, current_week) ==
    IF game_logs = <<>>
    THEN LET features == create_week_1_features(current_week)
             call == predict_td_probability(features)
         IN  [features |-> features, called |-> TRUE, invoked |-> call.invoked,
              outcome |-> IF call.raised # Null THEN "raised" ELSE "added"]
    ELSE LET features == extract_prediction_features(game_logs, current_week)
             call == predict_td_probability(features)
         IN  IF features = None
             THEN [features |-> features, called |-> FALSE, invoked |-> FALSE,
                   outcome |-> "no_features"]
             ELSE [features |-> features, called |-> TRUE, invoked |-> call.invoked,
                   outcome |-> IF call.raised # Null THEN "raised" ELSE "added"]

\* feature arrays a caller can hand to the scorer directly
ExampleVectors ==
    { None, Baseline(1), SubSeq(Baseline(1), 1, 10), Append(Baseline(1), Flt(0)),
      [Baseline(2) EXCEPT ![2] = NaN], [Baseline(2) EXCEPT ![3] = PosInf],
      [Baseline(2) EXCEPT ![9] = NegInf] }

ScoreInit ==
    /\ fbLogsA \in LogLists
    /\ fbLogsB \in {<<>>, <<MkLog(2025, 1, CHOOSE st \in StatLines : st.receptions > 0)>>}
    /\ fbWeek \in LogWeeks
    /\ fbYear = 2025
    /\ fbPc = "loop"
    /\ fbOut = [scored |-> <<>>, pending |-> {}, committed |-> {}, failed |-> 0,
                direct |-> <<>>]

\* one pass of the loop: the try block, db.add on success; on an exception
\* rollback, failed += 1 and continue
ScorePlayer ==
    /\ fbPc = "loop"
    /\ Len(fbOut.scored) < 2
    /\ LET i == Len(fbOut.scored) + 1
           r == LoopBody(IF i = 1 THEN fbLogsA ELSE fbLogsB, fbWeek)
       IN  fbOut' = [fbOut EXCEPT
                        !.scored = Append(@, r),
                        !.pending = IF r.outcome = "added" THEN @ \cup {i}
                                    ELSE IF r.outcome = "raised" THEN {}
                                    ELSE @,
                        !.failed = IF r.outcome = "added" THEN @ ELSE @ + 1]
    /\ UNCHANGED <<fbLogsA, fbLogsB, fbWeek, fbYear, fbPc>>
    /\ UNCHANGED <<storeVars, batchVars, weekVars, anchor>>

\* the commit after the loop
FinishScoring ==
    /\ fbPc = "loop"
    /\ Len(fbOut.scored) = 2
    /\ fbOut' = [fbOut EXCEPT !.committed = fbOut.pending, !.pending = {}]
    /\ fbPc' = "done"
    /\ UNCHANGED <<fbLogsA, fbLogsB, fbWeek, fbYear>>
    /\ UNCHANGED <<storeVars, batchVars, weekVars, anchor>>

\* a caller hands a feature array to predict_td_probability
CallScorer ==
    /\ fbOut.direct = <<>>
    /\ \E features \in ExampleVectors :
          fbOut' = [fbOut EXCEPT !.direct =
                        <<[features |-> features,
                           invoked |-> predict_td_probability(features).invoked,
                           raised |-> predict_td_probability(features).raised]>>]
    /\ UNCHANGED <<fbLogsA, fbLogsB, fbWeek, fbYear, fbPc>>
    /\ UNCHANGED <<storeVars, batchVars, weekVars, anchor>>

ScoreNext == ScorePlayer \/ FinishScoring \/ CallScorer

InitScore == ScoreInit /\ StoreIdle /\ BatchIdle /\ WeekIdle

SpecScore == InitScore /\ [][ScoreNext]_vars

\* the array has eleven elements, none of them NaN or infinite
ElevenFinite(features) ==
    /\ Len(features) = 11
    /\ \A k \in 1..11 : features[k] # NaN /\ features[k] # PosInf /\ features[k] # NegInf

\* C20: the model is never invoked on an array that has not exactly 11
\* elements or holds NaN or Inf; such an array makes the player's
\* prediction fail with an error, no Prediction is written for the player,
\* and the loop goes on with the next player.
C20_InvalidVectorFailsPlayer ==
    /\ \A i \in 1..Len(fbOut.scored) :
          /\ fbOut.scored[i].invoked => ElevenFinite(fbOut.scored[i].features)
          /\ (fbOut.scored[i].called /\ ~ElevenFinite(fbOut.scored[i].features)) =>
                /\ fbOut.scored[i].outcome = "raised"
                /\ i \notin fbOut.pending
                /\ i \notin fbOut.committed
                /\ fbOut.failed >= 1
                /\ fbPc = "done" => Len(fbOut.scored) = 2
    /\ \A c \in 1..Len(fbOut.direct) :
          /\ fbOut.direct[c].invoked => ElevenFinite(fbOut.direct[c].features)
          /\ ~ElevenFinite(fbOut.direct[c].features) =>
                fbOut.direct[c].raised = "ValueError"

\* the first player's features hold an infinity and the player failed; the
\* second player was scored and the Prediction committed
C20_Witness ==
    /\ fbPc = "done"
    /\ \E k \in 1..11 : IsInf(fbOut.scored[1].features[k])
    /\ fbOut.scored[1].outcome = "raised"
    /\ fbOut.scored[2].outcome = "added"
    /\ fbOut.committed = {2}

(***************************************************************************)
(* Data readiness.                                                         *)
(***************************************************************************)
\* the rows of the schedule table stored for a key
ScheduleEntries(season_year, week, season_type) ==
    { g \in schedule : /\ g.season_year = season_year
                       /\ g.week = week
                       /\ g.season_type = season_type }

\* the stored data_readiness rows of a key
ReadinessOf(season_year, week, season_type) ==
    { r \in data_readiness : ReadinessKey(r) = <<season_year, week, season_type>> }

\* process 1 has just left the tracker of a run that ended success or partial
JustEndedWell ==
    /\ Me(1).pc = "done"
    /\ Me(1).run_id # 0
    /\ batch_runs[Me(1).run_id].status \in {"success", "partial"}

\* C21: after a run that ends success or partial the data_readiness row of
\* the run's (season_year, week, season_type) exists and its counts equal
\* the numbers of matching rows of the tables; games_count is the number of
\* schedule rows stored for that (season_year, week, season_type).
C21_ReadinessCountsMatchTables ==
    JustEndedWell =>
        /\ ReadinessOf(Me(1).year, Me(1).week, Me(1).season_type) # {}
        /\ \A r \in ReadinessOf(Me(1).year, Me(1).week, Me(1).season_type) :
              /\ r = ReadinessRow(Me(1).year, Me(1).week, Me(1).season_type)
              /\ r.predictions_count =
                    Cardinality({ x \in predictions : /\ x.season_year = r.season_year
                                                      /\ x.week = r.week })
              /\ r.draftkings_odds_count + r.fanduel_odds_count =
                    Cardinality({ o \in sportsbook_odds : /\ o.season_year = r.season_year
                                                          /\ o.week = r.week })
              /\ r.games_count =
                    Cardinality(ScheduleEntries(r.season_year, r.week, r.season_type))

\* the row is recomputed, and every count but games_count matches
C21_RecomputedExceptGames ==
    JustEndedWell =>
        /\ ReadinessOf(Me(1).year, Me(1).week, Me(1).season_type) # {}
        /\ \A r \in ReadinessOf(Me(1).year, Me(1).week, Me(1).season_type) :
              /\ r = ReadinessRow(Me(1).year, Me(1).week, Me(1).season_type)
              /\ r.predictions_count =
                    Cardinality({ x \in predictions : /\ x.season_year = r.season_year
                                                      /\ x.week = r.week })
              /\ r.draftkings_odds_count + r.fanduel_odds_count =
                    Cardinality({ o \in sportsbook_odds : /\ o.season_year = r.season_year
                                                          /\ o.week = r.week })
              /\ r.games_count = 0

(***************************************************************************)
(* update_weekly.py invoked several times in a row, each time with any     *)
(* configuration and, when the environment sets BATCH_RUN_ID, on the       *)
(* BatchRun row of an earlier run (SpecRuns).  A fault of the database     *)
(* can end between two invocations.                                        *)
(***************************************************************************)
\* the configurations of the invocations
RunsConfigs == { cfg \in Configs : cfg.year = NFL_SEASON_YEAR }

\* update_weekly.main from the tracker's construction on: without
\* BATCH_RUN_ID a new BatchRun is committed by __aenter__; with it the run
\* is anchored to the existing row, which becomes tracker.batch_run
MainAnchored(p, configs) ==
    /\ Me(p).script \in {"none", "update_weekly"}
    /\ Me(p).pc \in {"idle", "done"}
    /\ Me(p).runs < MaxRuns
    /\ \E cfg \in configs, existing_batch_id \in 0..Len(batch_runs) :
          IF existing_batch_id = 0
          THEN /\ batch_runs' =
                     Append(batch_runs,
                            BatchRun(Len(batch_runs) + 1, "weekly_update", cfg.mode,
                                     cfg.year, cfg.week, cfg.season_type))
               /\ inserted' = Append(inserted, [schedule |-> {}, game_logs |-> {},
                                                predictions |-> {}])
               /\ proc' = [proc EXCEPT ![p] =
                             [IdleProc EXCEPT !.script = "update_weekly", !.pc = "schedule",
                                              !.mode = cfg.mode, !.year = cfg.year,
                                              !.week = cfg.week,
                                              !.season_type = cfg.season_type,
                                              !.run_id = Len(batch_runs) + 1,
                                              !.runs = Me(p).runs + 1]]
          ELSE LET batch_run == batch_runs[existing_batch_id]
               IN  /\ proc' = [proc EXCEPT ![p] =
                                 [IdleProc EXCEPT !.script = "update_weekly",
                                                  !.pc = "schedule",
                                                  !.mode = cfg.mode,
                                                  !.year = batch_run.season_year,
                                                  !.week = batch_run.week,
                                                  !.season_type = batch_run.season_type,
                                                  !.run_id = existing_batch_id,
                                                  !.BATCH_RUN_ID = existing_batch_id,
                                                  !.runs = Me(p).runs + 1]]
                   /\ UNCHANGED <<batch_runs, inserted>>
    /\ UNCHANGED <<schedule, gameLogs, sportsbook_odds, data_readiness, tableVars,
                   batch_execution_steps, faults, handed, readinessLog>>
    /\ UNCHANGED <<featVars, svcVars, weekVars, anchor>>

\* the database fault ends between the first and the second invocation
Recover ==
    /\ Me(1).pc = "done"
    /\ Me(1).runs = 1
    /\ faults.step # "none"
    /\ faults' = [faults EXCEPT !.step = "none"]
    /\ UNCHANGED <<schedule, gameLogs, sportsbook_odds, data_readiness, tableVars,
                   batch_runs, batch_execution_steps, proc, handed, inserted,
                   readinessLog>>
    /\ UNCHANGED <<featVars, svcVars, weekVars, anchor>>

InitRuns ==
    /\ InitTables
    /\ faults \in { f \in Faults : f.badGames = {} /\ f.badPlayers \subseteq {1, 4} }
    /\ FeatIdle
    /\ SvcIdle
    /\ WeekIdle

RunsNext ==
    \/ MainAnchored(1, RunsConfigs)
    \/ StartSchedule(1)
    \/ RunSchedule(1)
    \/ StartGameLogs(1)
    \/ RunGameLogs(1)
    \/ StartPredictions(1)
    \/ SelectPlayers(1)
    \/ PredictPlayer(1)
    \/ FinishPredictions(1)
    \/ StartOdds(1)
    \/ RunOdds(1)
    \/ Exit(1)
    \/ Recover

SpecRuns == InitRuns /\ [][RunsNext]_vars

\* no batch run is in progress
NoRunInProgress == \A p \in Procs : Me(p).pc \in {"idle", "done"}

\* C22: whenever no batch run is in progress, every stored data_readiness
\* row equals what update_data_readiness computes from the tables for the
\* row's key, after any sequence of runs.
C22_ReadinessReproducible ==
    NoRunInProgress =>
        \A r \in data_readiness : r = ReadinessRow(r.season_year, r.week, r.season_type)

\* the statuses in which __aexit__ leaves a run
FinalStatuses == {"success", "partial", "failed"}

\* the batch_execution_steps rows of a run
StepRows(id) ==
    { batch_execution_steps[k] : k \in { n \in 1..Len(batch_execution_steps) :
                                           batch_execution_steps[n].batch_run_id = id } }

\* no step changes the row or the steps of a run that has reached a final
\* status
FinalRunsKept ==
    \A id \in 1..Len(batch_runs) :
        batch_runs[id].status \in FinalStatuses =>
            /\ batch_runs'[id] = batch_runs[id]
            /\ StepRows(id)' = StepRows(id)

\* C23: once a BatchRun has reached success, partial or failed, its status,
\* metrics and steps are never changed again, also not by a later invocation
\* that is handed the run's id.
C23_FinalRunNeverMutated == [][FinalRunsKept]_vars

\* invocations that are not handed a run's id leave the finished runs alone
C23_KeptWithoutBatchRunId ==
    [][(\A p \in Procs : proc'[p].BATCH_RUN_ID = 0) => FinalRunsKept]_vars

\* the statuses in which complete_step leaves a step
FinalStepStatuses == {"success", "failed", "skipped"}

\* a step row keeps its status or goes from pending to running or from
\* running to a final status
StepMoves ==
    \A k \in 1..Len(batch_execution_steps) :
        \/ batch_execution_steps'[k].status = batch_execution_steps[k].status
        \/ /\ batch_execution_steps[k].status = "pending"
           /\ batch_execution_steps'[k].status = "running"
        \/ /\ batch_execution_steps[k].status = "running"
           /\ batch_execution_steps'[k].status \in FinalStepStatuses

\* the steps of a run that are in status running
RunningSteps(id) == { s \in StepRows(id) : s.status = "running" }

ModeSteps(mode) ==
    CASE mode = "full" -> <<"schedule", "game_logs", "predictions", "odds">>
      [] mode = "odds_only" -> <<"odds">>
      [] mode = "ingest_only" -> <<"schedule", "game_logs">>
      [] mode = "schedule_only" -> <<"schedule">>
      [] OTHER -> <<>>

\* the step names a run has recorded with the given status, in table order
StepNamesIn(id, status) ==
    LET rows == SelectSeq(batch_execution_steps,
                          LAMBDA s : s.batch_run_id = id /\ s.status = status)
    IN  [k \in 1..Len(rows) |-> rows[k].step_name]

\* the steps a run anchored to a week of the season type executes
StepsToExecute(mode, season_type) ==
    IF season_type = "reg"
    THEN ModeSteps(mode)
    ELSE SelectSeq(ModeSteps(mode), LAMBDA name : name \notin {"game_logs", "predictions"})

\* the weekly runs that ended success or partial
EndedWell ==
    { id \in 1..Len(batch_runs) : /\ batch_runs[id].batch_type = "weekly_update"
                                  /\ batch_runs[id].status \in {"success", "partial"} }

\* C25 as stated: the steps a run executes are determined by its mode alone.
C25_StepsByModeAlone ==
    \A id \in EndedWell :
        StepNamesIn(id, "success") = ModeSteps(batch_runs[id].batch_mode)

\* C25: the steps a run executes are determined by its mode and by the
\* season type of its week: in a regular-season week the steps of the mode;
\* in a playoff week the same without game_logs, which is recorded as
\* skipped, and without predictions, which is not started.
C25_StepsByModeAndSeasonType ==
    \A id \in EndedWell :
        /\ StepNamesIn(id, "success") =
              StepsToExecute(batch_runs[id].batch_mode, batch_runs[id].season_type)
        /\ StepNamesIn(id, "skipped") =
              IF /\ batch_runs[id].season_type # "reg"
                 /\ batch_runs[id].batch_mode \in {"full", "ingest_only"}
              THEN <<"game_logs">> ELSE <<>>
        /\ StepNamesIn(id, "failed") = <<>>
        /\ StepNamesIn(id, "running") = <<>>

\* a full run of a playoff week has ended after the schedule and odds steps,
\* and the script was invoked a second time
C25_Witness ==
    \E id \in EndedWell :
        /\ batch_runs[id].batch_mode = "full"
        /\ batch_runs[id].season_type = "post"
        /\ StepNamesIn(id, "success") = <<"schedule", "odds">>
        /\ Len(batch_runs) = 2

(***************************************************************************)
(* The mode validation of update_weekly.py (SpecAnchor).                   *)
(***************************************************************************)
\* the last invocation asked for odds_only without both --week and --year
OddsOnlyWithoutWeekAndYear ==
    /\ anchor # <<>>
    /\ anchor[1].mode = "odds_only"
    /\ (anchor[1].week = 0 \/ anchor[1].year = 0)

\* C26: an odds_only invocation without both an explicit week and an
\* explicit year is rejected with an error before any database or provider
\* call is made and before any BatchRun is created.
C26_OddsOnlyNeedsWeekAndYear ==
    OddsOnlyWithoutWeekAndYear =>
        /\ anchor[1].a.outcome = "usage_error"
        /\ anchor[1].calls = <<>>
        /\ Len(batch_runs) = anchor[1].runs_before
        /\ \A id \in 1..Len(batch_runs) : batch_runs[id].status # "running"

\* odds_only with --week and without --year was rejected while the
\* schedule query was failing and BATCH_RUN_ID named the earlier run
C26_Witness ==
    /\ OddsOnlyWithoutWeekAndYear
    /\ anchor[1].week # 0
    /\ anchor[1].BATCH_RUN_ID = 1
    /\ wkDown
    /\ Len(batch_runs) = 1
    /\ anchor[1].a.outcome = "usage_error"

(***************************************************************************)
(* Playoff weeks.                                                          *)
(***************************************************************************)
\* the finished full and ingest_only runs of a playoff week
PlayoffRuns ==
    { id \in 1..Len(batch_runs) : /\ batch_runs[id].batch_type = "weekly_update"
                                  /\ batch_runs[id].status \in FinalStatuses
                                  /\ batch_runs[id].season_type = "post"
                                  /\ batch_runs[id].batch_mode \in {"full", "ingest_only"} }

\* the rows of a step of a run
StepsNamed(id, step_name) == { s \in StepRows(id) : s.step_name = step_name }

\* C27: a full or ingest_only run anchored to a playoff week records the
\* game_logs step as skipped, with a reason, and not as failed; the run
\* writes no Prediction row; and the run ends failed only if another step
\* failed, partial otherwise.
C27_PlayoffSkipsGameLogs ==
    \A id \in PlayoffRuns :
        /\ \A s \in StepsNamed(id, "game_logs") :
              /\ s.status = "skipped"
              /\ s.error_message = "Skipped: Playoffs not supported for predictions"
        /\ \/ Cardinality(StepsNamed(id, "game_logs")) = 1
           \/ \E s \in StepsNamed(id, "schedule") : s.status = "failed"
        /\ StepsNamed(id, "predictions") = {}
        /\ inserted[id].predictions = {}
        /\ batch_runs[id].status =
              IF \E s \in StepRows(id) : s.status = "failed" THEN "failed" ELSE "partial"

\* an ingest_only run of a playoff week ended partial with the game_logs
\* step skipped
C27_Witness ==
    \E id \in PlayoffRuns :
        /\ batch_runs[id].batch_mode = "ingest_only"
        /\ batch_runs[id].status = "partial"
        /\ \E s \in StepsNamed(id, "game_logs") : s.status = "skipped"
        /\ \E s \in StepsNamed(id, "schedule") : s.status = "success"

(***************************************************************************)
(* Re-invoking a failed run (SpecRuns).  SingleRun is what one run that    *)
(* no step failure interrupts leaves in the tables, computed from the      *)
(* tables before the runs and the provider's data.                         *)
(***************************************************************************)
\* the tables before the runs
InitialSchedule ==
    { Schedule(GameId(y, "reg", w, n), y, w, "reg") :
        y \in RunYears, w \in 1..2, n \in 1..MaxGames }

InitialGameLogs ==
    { log \in UNION { get_game_logs_from_box_score(GameId(y, "reg", 1, n), y, 1) :
                        y \in RunYears, n \in 1..MaxGames } :
        log.player_id \in Roster \ {MaxPlayers} }

\* the players whose rows the prediction loop commits: a player that raises
\* rolls back the rows added since the last commit
RECURSIVE LoopCommits(_, _, _, _)
LoopCommits(todo, i, pending, committed) ==
    IF todo = <<>>
    THEN committed \cup pending
    ELSE IF ScoringRaises(Head(todo))
    THEN LoopCommits(Tail(todo), i + 1, {}, committed)
    ELSE IF (i + 1) % CommitEvery = 0
    THEN LoopCommits(Tail(todo), i + 1, {}, committed \cup pending \cup {Head(todo)})
    ELSE LoopCommits(Tail(todo), i + 1, pending \cup {Head(todo)}, committed)

\* the tables after a single run of update_weekly.py for cfg, with a week
\* before week 18
SingleRun(cfg) ==
    LET sched ==
            IF cfg.mode \in {"full", "ingest_only", "schedule_only"}
            THEN InitialSchedule \cup
                 { Schedule(g, cfg.year, w, "reg") :
                     g \in get_schedule(cfg.year, cfg.week, "reg")
                           \cup get_schedule(cfg.year, cfg.week + 1, "reg"),
                     w \in {cfg.week, cfg.week + 1} }
            ELSE InitialSchedule
        stored == { g \in sched : g.game_id[3] = g.week }
        logs ==
            IF cfg.mode \in {"full", "ingest_only"} /\ cfg.season_type = "reg"
            THEN InitialGameLogs \cup
                 { log \in UNION { get_game_logs_from_box_score(g.game_id, cfg.year,
                                                                cfg.week - 1) :
                                     g \in { x \in stored : /\ x.season_year = cfg.year
                                                            /\ x.week = cfg.week - 1 } } :
                     log.player_id \in valid_player_ids }
            ELSE InitialGameLogs
        has_logs(player) ==
            \E log \in logs : /\ log.player_id = player
                              /\ log.season_year = NFL_SEASON_YEAR
                              /\ log.week < cfg.week
        players ==
            IF cfg.mode = "full" /\ cfg.season_type = "reg"
            THEN LoopCommits(players_table, 0, {}, {})
            ELSE {}
        odds ==
            IF cfg.mode \in {"full", "odds_only"}
            THEN { v \in UNION { get_betting_odds(g.game_id, cfg.year, cfg.week) :
                                   g \in { x \in stored : /\ x.season_year = cfg.year
                                                          /\ x.week = cfg.week } } :
                     v.player_id \in valid_player_ids }
            ELSE {}
    IN  [schedule |-> stored, gameLogs |-> logs,
         predictions |->
            { [player_id |-> player, season_year |-> cfg.year, week |-> cfg.week,
               td_likelihood |-> IF has_logs(player) THEN 300 ELSE 100] :
                player \in players },
         sportsbook_odds |-> odds]

\* the configuration of a run
ConfigOf(id) ==
    [mode |-> batch_runs[id].batch_mode, year |-> batch_runs[id].season_year,
     week |-> batch_runs[id].week, season_type |-> batch_runs[id].season_type]

\* the tables are those of a single run for cfg, without duplicated rows
TablesOfSingleRun(cfg) ==
    /\ schedule = SingleRun(cfg).schedule
    /\ gameLogs = SingleRun(cfg).gameLogs
    /\ { [player_id |-> r.player_id, season_year |-> r.season_year, week |-> r.week,
          td_likelihood |-> r.td_likelihood] : r \in predictions }
          = SingleRun(cfg).predictions
    /\ sportsbook_odds = SingleRun(cfg).sportsbook_odds
    /\ \A r1, r2 \in predictions : KeyOf(r1) = KeyOf(r2) => r1 = r2
    /\ \A o1, o2 \in sportsbook_odds : OddsKey(o1) = OddsKey(o2) => o1 = o2
    /\ \A g1, g2 \in schedule : g1.game_id = g2.game_id => g1 = g2
    /\ \A l1, l2 \in gameLogs :
          (l1.player_id = l2.player_id /\ l1.game_id = l2.game_id) => l1 = l2

\* the first run failed after a step had committed rows, the fault ended,
\* and the same configuration was invoked again and has finished
RerunAfterFailure ==
    /\ Len(batch_runs) = 2
    /\ Me(1).pc = "done"
    /\ Me(1).runs = 2
    /\ Me(1).run_id = 2
    /\ Me(1).BATCH_RUN_ID = 0
    /\ faults.step = "none"
    /\ batch_runs[1].status = "failed"
    /\ \E s \in StepRows(1) : s.status = "success" /\ s.records_processed > 0
    /\ ConfigOf(2) = ConfigOf(1)

\* one run that nothing interrupted has finished
OneRunOnly ==
    /\ Len(batch_runs) = 1
    /\ Me(1).runs = 1
    /\ Me(1).pc = "done"
    /\ batch_runs[1].status \in {"success", "partial"}

\* C28: if a run fails after some of its steps have committed data,
\* re-invoking the same configuration against unchanged upstream data ends
\* success or partial and leaves the schedule, game-log, prediction and
\* odds tables equal to what a single uninterrupted run would have
\* produced, with no duplicated rows.
C28_RerunRecoversForward ==
    RerunAfterFailure =>
        /\ batch_runs[2].status \in {"success", "partial"}
        /\ TablesOfSingleRun(ConfigOf(2))

\* SingleRun is what a single run leaves
C28_SingleRunTables == OneRunOnly => TablesOfSingleRun(ConfigOf(1))

\* when the scorer raises for no player the re-invocation recovers forward
C28_RecoversWithoutScoringFailures ==
    (RerunAfterFailure /\ faults.badPlayers = {}) =>
        /\ batch_runs[2].status \in {"success", "partial"}
        /\ TablesOfSingleRun(ConfigOf(2))

(***************************************************************************)
(* generate_predictions.py with its arguments and its terminal.  The       *)
(* script asks "Continue? (yes/no)" in main and "Type 'DELETE' to confirm" *)
(* before it deletes; both prompts are skipped when the environment        *)
(* variable CI is set.  overwrites records each deleted row.               *)
(***************************************************************************)
\* what is typed at a prompt
Answers == {"yes", "no", "DELETE"}

\* the rows delete(Prediction).where(season_year, week) removes
PredictionsOfWeek(season_year, week) ==
    { r \in predictions : r.season_year = season_year /\ r.week = week }

\* main, then generate_predictions_for_week up to BatchTracker.__aenter__
GpForce(p, configs) ==
    /\ Me(p).script \in {"none", "generate_predictions"}
    /\ Me(p).pc \in {"idle", "done"}
    /\ Me(p).runs < MaxRuns
    /\ \E cfg \in configs, force \in BOOLEAN, CI \in BOOLEAN,
          response \in Answers, confirm \in Answers :
          LET existing == PredictionsOfWeek(cfg.year, cfg.week)
              deletes == existing # {} /\ force
              cancelled == \/ ~CI /\ response # "yes"
                           \/ deletes /\ ~CI /\ confirm # "DELETE"
              kept == IF deletes /\ ~cancelled THEN predictions \ existing
                      ELSE predictions
              existing_player_ids ==
                  { r.player_id : r \in { x \in kept : /\ x.season_year = cfg.year
                                                       /\ x.week = cfg.week } }
              todo == SelectSeq(players_table,
                                LAMBDA player : player \notin existing_player_ids)
              started == [IdleProc EXCEPT !.script = "generate_predictions",
                                          !.year = cfg.year, !.week = cfg.week,
                                          !.runs = Me(p).runs + 1]
          IN  /\ predictions' = kept
              /\ overwrites' = overwrites \cup
                    { [player_id |-> r.player_id, season_year |-> r.season_year,
                       week |-> r.week, asked |-> "--force", CI |-> CI,
                       confirm |-> IF CI THEN Null ELSE confirm] :
                         r \in predictions \ kept }
              /\ IF cancelled \/ todo = <<>>
                 THEN /\ proc' = [proc EXCEPT ![p] = [started EXCEPT !.pc = "done"]]
                      /\ UNCHANGED <<batch_runs, inserted>>
                 ELSE /\ batch_runs' =
                            Append(batch_runs,
                                   BatchRun(Len(batch_runs) + 1, "prediction_generation",
                                            IF force THEN "full" ELSE "incremental",
                                            cfg.year, cfg.week, "reg"))
                      /\ inserted' = Append(inserted, [schedule |-> {}, game_logs |-> {},
                                                       predictions |-> {}])
                      /\ proc' = [proc EXCEPT ![p] =
                            [started EXCEPT !.pc = "pred_loop", !.todo = todo,
                                            !.skipped = Len(players_table) - Len(todo),
                                            !.run_id = Len(batch_runs) + 1]]
    /\ UNCHANGED <<schedule, gameLogs, sportsbook_odds, data_readiness, nextId,
                   batch_execution_steps, faults, handed, readinessLog>>
    /\ UNCHANGED <<sess, writeLog, firstStored, calls>>
    /\ UNCHANGED <<featVars, weekVars, anchor>>

InitForce ==
    /\ InitTables
    /\ faults \in { f \in Faults : f.badGames = {} /\ f.step = "none" }
    /\ FeatIdle
    /\ SvcIdle
    /\ WeekIdle

\* generate_predictions.py is run MaxRuns times in a row
ForceNext ==
    \/ GpForce(1, RaceConfigs)
    \/ PredictPlayer(1)
    \/ FinishPredictions(1)
    \/ Exit(1)

SpecForce == InitForce /\ [][ForceNext]_vars

\* C29: a stored prediction is overwritten or deleted only after a
\* confirmation that is separate from the request to regenerate; no path
\* (command line, CI environment, HTTP endpoint) does so without it.
C29_DeletedOnlyAfterConfirmation ==
    \A o \in overwrites : o.asked = "--force" /\ o.confirm = "DELETE"

\* the part of C29 the command line satisfies: without CI in the
\* environment, rows are deleted only after DELETE was typed
C29_ConfirmedOutsideCI ==
    \A o \in overwrites : (o.asked = "--force" /\ ~o.CI) => o.confirm = "DELETE"

(***************************************************************************)
(* The game_logs table and its two writers: update_weekly.py               *)
(* (update_game_logs_from_box_scores, the games of the week before the     *)
(* current one) and backfill_complete.py (backfill_game_logs_for_week).    *)
(* A box score fetched again later may carry corrected stats.  Sessions    *)
(* do not autoflush: an added row is seen by other selects only after its  *)
(* commit.                                                                 *)
(***************************************************************************)
\* the receptions the provider may report for a player's game
Receptions == {4, 5}

\* the week whose games a process fetches
LogWeek(p) == IF Me(p).script = "update_weekly" THEN Me(p).week - 1 ELSE Me(p).week

\* select(Schedule).where(season_year, week): the games, in game order
GamesOfWeek(season_year, week) ==
    LET numbered == [n \in 1..MaxGames |-> n]
        stored == SelectSeq(numbered,
                            LAMBDA n : \E g \in schedule : /\ g.season_year = season_year
                                                           /\ g.week = week
                                                           /\ g.game_id[4] = n)
    IN  [k \in 1..Len(stored) |->
            CHOOSE g \in schedule : /\ g.season_year = season_year
                                    /\ g.week = week
                                    /\ g.game_id[4] = stored[k]]

\* the box score of a game as the client returns it, one dict per player
box_score(game_id, season_year, week, receptions) ==
    LET player_ids == <<UnknownPlayer>> \o
                      SelectSeq(players_table, LAMBDA i : i \in PlayersIn(game_id))
    IN  [k \in 1..Len(player_ids) |->
            [player_id |-> player_ids[k], game_id |-> game_id,
             season_year |-> season_year, week |-> week, receptions |-> receptions]]

\* select(GameLog).where(GameLog.player_id == ..., GameLog.game_id == ...)
existing_log(player_id, game_id) ==
    { e \in gameLogs : e.player_id = player_id /\ e.game_id = game_id }

\* the logs of a box score that the loop leaves out as already stored
skipped_existing(game_logs, game) ==
    SelectSeq(game_logs, LAMBDA log : /\ log.player_id \in valid_player_ids
                                      /\ existing_log(log.player_id, game.game_id) # {})

\* the GameLog objects the loop adds to the session for a game
logs_to_add(game_logs, game) ==
    SelectSeq(game_logs, LAMBDA log : /\ log.player_id \in valid_player_ids
                                      /\ existing_log(log.player_id, game.game_id) = {})

\* a game_logs table without the unique index
NoGameLogIndex(pending) == FALSE

\* ix_game_logs_player_game (unique): the INSERT of a stored key is refused
GameLogIntegrityError(pending) ==
    \E k \in 1..Len(pending) : existing_log(pending[k].player_id, pending[k].game_id) # {}

\* GameLog rows of the committed session, with their autoincrement ids
GameLogRows(pending) ==
    { [id |-> Cardinality(gameLogs) + k] @@ pending[k] : k \in 1..Len(pending) }

\* the next block of the loop once a game is dealt with
AfterGame(p) == IF Tail(Me(p).todo) = <<>> THEN "done" ELSE "logs_fetch"

\* the script starts and selects the games of its week
LogsStart(p, script, week) ==
    /\ Me(p).script \in {"none", script}
    /\ Me(p).pc \in {"idle", "done"}
    /\ Me(p).runs < MaxRuns
    /\ LET started == [IdleProc EXCEPT !.script = script, !.year = NFL_SEASON_YEAR,
                                       !.week = week, !.runs = Me(p).runs + 1]
           games == GamesOfWeek(NFL_SEASON_YEAR,
                                IF script = "update_weekly" THEN week - 1 ELSE week)
       IN  proc' = [proc EXCEPT ![p] =
                      [started EXCEPT !.todo = games,
                                      !.pc = IF games = <<>> THEN "done" ELSE "logs_fetch"]]
    /\ UNCHANGED <<schedule, gameLogs, sportsbook_odds, data_readiness, tableVars,
                   batch_runs, batch_execution_steps, faults, handed, inserted,
                   readinessLog>>
    /\ UNCHANGED <<featVars, svcVars, weekVars, anchor>>

\* one pass of the loop up to the commit: the box score is fetched and the
\* logs without a stored row are added; a failed fetch is rolled back and
\* the loop continues.  update_weekly.py commits only if it added a log
LogsFetch(p) ==
    /\ Me(p).pc = "logs_fetch"
    /\ LET game == Head(Me(p).todo)
       IN  IF FetchFails(game)
           THEN proc' = [proc EXCEPT ![p] = [@ EXCEPT !.todo = Tail(@), !.pc = AfterGame(p)]]
           ELSE \E receptions \in Receptions :
                   LET game_logs == box_score(game.game_id, Me(p).year, LogWeek(p),
                                              receptions)
                       added == logs_to_add(game_logs, game)
                       seen == [Me(p) EXCEPT
                                   !.skipped = @ + Len(skipped_existing(game_logs, game))]
                   IN  IF Me(p).script = "update_weekly" /\ added = <<>>
                       THEN proc' = [proc EXCEPT ![p] =
                                       [seen EXCEPT !.todo = Tail(@), !.pc = AfterGame(p)]]
                       ELSE proc' = [proc EXCEPT ![p] =
                                       [seen EXCEPT !.pending = added, !.pc = "logs_commit"]]
    /\ UNCHANGED <<schedule, gameLogs, sportsbook_odds, data_readiness, tableVars,
                   batch_runs, batch_execution_steps, faults, handed, inserted,
                   readinessLog>>
    /\ UNCHANGED <<featVars, svcVars, weekVars, anchor>>

\* await db.commit(); its exception is caught, rolled back, and the loop
\* continues with the next game
LogsCommit(p) ==
    /\ Me(p).pc = "logs_commit"
    /\ IF GameLogIntegrityError(Me(p).pending)
       THEN /\ UNCHANGED gameLogs
            /\ proc' = [proc EXCEPT ![p] =
                          [@ EXCEPT !.pending = <<>>, !.todo = Tail(@), !.pc = AfterGame(p)]]
       ELSE /\ gameLogs' = gameLogs \cup GameLogRows(Me(p).pending)
            /\ proc' = [proc EXCEPT ![p] =
                          [@ EXCEPT !.pending = <<>>, !.todo = Tail(@), !.pc = AfterGame(p),
                                    !.successful = @ + Len(Me(p).pending)]]
    /\ UNCHANGED <<schedule, sportsbook_odds, data_readiness, tableVars, batch_runs,
                   batch_execution_steps, faults, handed, inserted, readinessLog>>
    /\ UNCHANGED <<featVars, svcVars, weekVars, anchor>>

\* the schedule of the season is stored, no game log is
InitLogs ==
    /\ schedule = InitialSchedule
    /\ gameLogs = {}
    /\ sportsbook_odds = {}
    /\ data_readiness = {}
    /\ predictions = {}
    /\ nextId = 1
    /\ batch_runs = <<>>
    /\ batch_execution_steps = <<>>
    /\ proc = [p \in Procs |-> IdleProc]
    /\ handed = {}
    /\ inserted = <<>>
    /\ readinessLog = <<>>
    /\ faults \in { f \in Faults : f.badPlayers = {} /\ f.step = "none" }
    /\ FeatIdle
    /\ SvcIdle
    /\ WeekIdle

\* process 1 runs update_weekly.py for week 3 while process 2 backfills
\* week 2, each MaxRuns times
LogsNext ==
    \/ LogsStart(1, "update_weekly", 3)
    \/ LogsStart(2, "backfill_complete", 2)
    \/ \E p \in Procs : LogsFetch(p) \/ LogsCommit(p)

SpecLogs == InitLogs /\ [][LogsNext]_vars

\* every stored row is still stored, with every field as it was
StoredLogsKept == gameLogs \subseteq gameLogs'

\* a row is inserted only for a (player_id, game_id) that has no row
InsertsOnlyNewKeys ==
    \A r \in gameLogs' \ gameLogs : existing_log(r.player_id, r.game_id) = {}

OneRowPerKey ==
    \A r, e \in gameLogs : (r.player_id = e.player_id /\ r.game_id = e.game_id) => r = e

\* C30: once a GameLog for (player_id, game_id) is stored, no later batch
\* or backfill run changes a field of it or deletes it; a later run that
\* meets the same (player_id, game_id) inserts nothing for it, and there
\* is never more than one row per (player_id, game_id).
C30_GameLogsImmutable ==
    /\ [][StoredLogsKept /\ InsertsOnlyNewKeys]_vars
    /\ []OneRowPerKey

\* a last run has met stored logs, left them out and ended, and the table
\* holds rows of box scores that reported different stats
C30_Witness ==
    /\ gameLogs # {}
    /\ \E p \in Procs : Me(p).pc = "done" /\ Me(p).runs = MaxRuns /\ Me(p).skipped > 0
    /\ \E r, e \in gameLogs : r.receptions # e.receptions

(***************************************************************************)
(* Callers of decimal_to_american_odds.  writeLog holds the call and what  *)
(* it returned.                                                            *)
(***************************************************************************)
\* the probabilities handed to the conversion, in thousandths; the scorer
\* returns values of [0, 1], other callers may pass any float
MaxProbability == 1020
OddsInputs == (0 - 20)..MaxProbability

ConvertOdds ==
    /\ writeLog = <<>>
    /\ \E probability \in OddsInputs :
          writeLog' = <<[probability |-> probability,
                         probability_pct |-> RoundHalfEven(probability, 10),
                         returned |-> decimal_to_american_odds(probability)]>>
    /\ UNCHANGED <<predictions, nextId, sess, overwrites, firstStored, calls>>
    /\ UNCHANGED <<featVars, batchVars, weekVars, anchor>>

InitOdds == StoreInit /\ FeatIdle /\ BatchIdle /\ WeekIdle

SpecOdds == InitOdds /\ [][ConvertOdds]_vars

\* the returned tuple is (sign and rounded odds, odds, favor)
Returns(e, direction, rounded, favor) ==
    /\ e.returned.formatted = <<direction, rounded>>
    /\ e.returned.odds = Flt(rounded)
    /\ e.returned.favor = favor

\* C31: with p = round(probability x 100): p = 0 gives +999 with favor +1
\* and p = 100 gives -999 with favor -1; for 1 <= p <= 49 favor is +1 and
\* the odds are positive; for 50 <= p <= 99 favor is -1 and the odds are
\* negative; p = 50 gives -100, p = 25 gives +300 and p = 75 gives -300.
C31_OddsByPercent ==
    \A i \in 1..Len(writeLog) :
        LET e == writeLog[i]
            p == e.probability_pct
        IN  /\ p = 0 => Returns(e, "+", 999, 1)
            /\ p = 100 => Returns(e, "", -999, -1)
            /\ p \in 1..49 => /\ e.returned.favor = 1
                              /\ e.returned.odds[1] > 0
                              /\ e.returned.formatted[1] = "+"
                              /\ e.returned.formatted[2] > 0
            /\ p \in 50..99 => /\ e.returned.favor = -1
                               /\ e.returned.odds[1] < 0
                               /\ e.returned.formatted[1] = ""
                               /\ e.returned.formatted[2] < 0
            /\ p = 50 => Returns(e, "", -100, -1)
            /\ p = 25 => Returns(e, "+", 300, 1)
            /\ p = 75 => Returns(e, "", -300, -1)

\* the conversion has been called with an even chance
C31_Witness ==
    /\ writeLog # <<>>
    /\ writeLog[1].probability = 500
    /\ writeLog[1].returned = [formatted |-> <<"", -100>>, odds |-> Flt(-100), favor |-> -1]

(***************************************************************************)
(* update_data_readiness called for any key over tables that hold the      *)
(* schedule in either spelling of the season type and the game logs of     *)
(* some weeks of both seasons (SpecReady).                                 *)
(***************************************************************************)
MaxReadinessCalls == 2

\* the season types update_data_readiness has an entry for in season_type_map
Spellings == {"reg", "post", "Regular Season", "Post Season"}
ReadyWeeks == 1..3

\* games_count values around the two thresholds
GameCounts == {0, 1, 13, 14}

\* a week's game logs: the number of rows tells the season and week apart
LogRows(season_year, week) ==
    { [player_id |-> n, game_id |-> GameId(season_year, "reg", week, 1),
       season_year |-> season_year, week |-> week] :
        n \in 1..(IF season_year = NFL_SEASON_YEAR THEN week ELSE week + 3) }

ReadyInit ==
    /\ \E stored \in Spellings, count \in GameCounts :
          schedule = { Schedule(GameId(y, stored, w, n), y, w, stored) :
                         y \in RunYears, w \in ReadyWeeks, n \in 1..count }
    /\ \E weeks \in SUBSET ReadyWeeks :
          gameLogs = UNION { LogRows(NFL_SEASON_YEAR, w) : w \in weeks }
                     \cup UNION { LogRows(y, w) : y \in RunYears \ {NFL_SEASON_YEAR},
                                                  w \in ReadyWeeks }
    /\ sportsbook_odds = {}
    /\ data_readiness = {}
    /\ predictions = {}
    /\ nextId = 1
    /\ batch_runs = <<>>
    /\ batch_execution_steps = <<>>
    /\ proc = [p \in Procs |-> IdleProc]
    /\ handed = {}
    /\ inserted = <<>>
    /\ readinessLog = <<>>
    /\ faults \in { f \in Faults : f.badPlayers = {} /\ f.badGames = {} /\ f.step = "none" }

\* await update_data_readiness(db, season_year, week, season_type)
UpdateReadiness ==
    /\ Len(readinessLog) < MaxReadinessCalls
    /\ \E season_year \in {NFL_SEASON_YEAR}, week \in ReadyWeeks, season_type \in Spellings :
          LET after == update_data_readiness(season_year, week, season_type)
          IN  /\ data_readiness' = after
              /\ readinessLog' = Append(readinessLog, after)
    /\ UNCHANGED <<schedule, gameLogs, sportsbook_odds, tableVars, batch_runs,
                   batch_execution_steps, proc, faults, handed, inserted>>
    /\ UNCHANGED <<featVars, svcVars, weekVars, anchor>>

InitReady == ReadyInit /\ FeatIdle /\ SvcIdle /\ WeekIdle

ReadyNext == UpdateReadiness

SpecReady == InitReady /\ [][ReadyNext]_vars

\* the game_logs rows of a season and week
LogsOfWeek(season_year, week) ==
    { l \in gameLogs : l.season_year = season_year /\ l.week = week }

\* C32: for a week W > 1, game_logs_available and game_logs_count of the
\* readiness row of W are computed from the game logs of week W-1 of the
\* same season; for W = 1 they are computed from week 1 itself.
C32_GameLogsOfPriorWeek ==
    \A r \in data_readiness :
        LET counted == LogsOfWeek(r.season_year, IF r.week > 1 THEN r.week - 1 ELSE 1)
        IN  /\ r.game_logs_count = Cardinality(counted)
            /\ r.game_logs_available = (counted # {})

\* a row of week 1 and a row of a later week whose own week and prior week
\* hold different numbers of logs
C32_Witness ==
    /\ \E r \in data_readiness : r.week = 1 /\ r.game_logs_available
    /\ \E r \in data_readiness :
          /\ r.week > 1
          /\ LogsOfWeek(r.season_year, r.week) # {}
          /\ LogsOfWeek(r.season_year, r.week - 1) = {}
          /\ ~r.game_logs_available

\* the season of a spelling
IsRegular(season_type) == season_type \in {"reg", "Regular Season"}

\* C33: schedule_complete is true exactly when games_count >= 14 for a
\* regular-season week and exactly when games_count >= 1 for a playoff
\* week, for every spelling of the season type the function accepts.
C33_ScheduleCompleteThreshold ==
    \A r \in data_readiness :
        r.schedule_complete =
            (r.games_count >= (IF IsRegular(r.season_type) THEN 14 ELSE 1))

\* the part of C33 the code satisfies: the thresholds for 'reg' and for
\* both spellings of the post season
C33_ThresholdExceptLongRegular ==
    \A r \in data_readiness :
        r.season_type # "Regular Season" =>
            r.schedule_complete =
                (r.games_count >= (IF IsRegular(r.season_type) THEN 14 ELSE 1))

(***************************************************************************)
(* Tank01Client._get against a provider whose failures are transient       *)
(* (SpecFetch): for each game the next faults.failing[n] requests fail     *)
(* (network error, 429, 5xx) and the one after them is answered.           *)
(* faults.requests is the provider's access log.                           *)
(***************************************************************************)
MaxTransientFailures == 2

\* one GET: the request is sent once; raise_for_status or the transport
\* raises and _get re-raises
get_raises(game) == faults.failing[game.game_id[4]] > 0

\* the provider after the request
Requested(run_id, endpoint, game) ==
    LET n == game.game_id[4]
    IN  [faults EXCEPT
            !.failing[n] = IF @ > 0 THEN @ - 1 ELSE 0,
            !.requests = Append(@, [run_id |-> run_id, endpoint |-> endpoint,
                                    game_id |-> game.game_id,
                                    status |-> IF get_raises(game) THEN "error" ELSE "ok"])]

FetchConfigs ==
    { cfg \in Configs : /\ cfg.mode \in {"ingest_only", "odds_only"}
                        /\ cfg.year = NFL_SEASON_YEAR
                        /\ cfg.season_type = "reg" }

\* update_game_logs_from_box_scores, one pass of the loop over the games
FetchBoxScore(p) ==
    /\ Me(p).pc = "game_logs_body"
    /\ Me(p).i < Len(GamesOfWeek(Me(p).year, Me(p).week - 1))
    /\ LET game == GamesOfWeek(Me(p).year, Me(p).week - 1)[Me(p).i + 1]
           added == { log \in get_game_logs_from_box_score(game.game_id, Me(p).year,
                                                           Me(p).week - 1) :
                        /\ log.player_id \in valid_player_ids
                        /\ \A e \in gameLogs :
                              ~(e.player_id = log.player_id /\ e.game_id = game.game_id) }
       IN  /\ faults' = Requested(Me(p).run_id, "getNFLBoxScore", game)
           /\ IF get_raises(game)
              THEN /\ proc' = [proc EXCEPT ![p] = [@ EXCEPT !.i = @ + 1]]
                   /\ UNCHANGED <<gameLogs, inserted>>
              ELSE /\ gameLogs' = gameLogs \cup added
                   /\ inserted' = [inserted EXCEPT ![Me(p).run_id].game_logs = @ \cup added]
                   /\ proc' = [proc EXCEPT ![p] =
                                 [@ EXCEPT !.i = @ + 1,
                                           !.successful = @ + Cardinality(added)]]
    /\ UNCHANGED <<schedule, sportsbook_odds, data_readiness, tableVars, batch_runs,
                   batch_execution_steps, handed, readinessLog>>
    /\ UNCHANGED <<featVars, svcVars, weekVars, anchor>>

\* the loop is over: increment_metric('game_logs_added'), complete_step
FinishGameLogs(p) ==
    /\ Me(p).pc = "game_logs_body"
    /\ Me(p).i = Len(GamesOfWeek(Me(p).year, Me(p).week - 1))
    /\ StepSucceeds(p, [Me(p) EXCEPT !.i = 0, !.successful = 0], "game_logs_added",
                    Me(p).successful, "predictions")
    /\ UNCHANGED <<schedule, gameLogs, sportsbook_odds, data_readiness, tableVars, faults,
                   handed, inserted, readinessLog>>
    /\ UNCHANGED <<featVars, svcVars, weekVars, anchor>>

\* all_odds_values as the loop has collected it so far
Collected(p) == IF Me(p).i = 0 THEN {} ELSE Me(p).pending

\* sync_odds_for_next_week, one pass of the loop over the games
FetchOdds(p) ==
    /\ Me(p).pc = "odds_body"
    /\ Me(p).week <= 18
    /\ Me(p).i < Len(GamesOfWeek(Me(p).year, Me(p).week))
    /\ LET game == GamesOfWeek(Me(p).year, Me(p).week)[Me(p).i + 1]
           values == { v \in get_betting_odds(game.game_id, Me(p).year, Me(p).week) :
                         v.player_id \in valid_player_ids }
       IN  /\ faults' = Requested(Me(p).run_id, "getNFLBettingOdds", game)
           /\ proc' = [proc EXCEPT ![p] =
                         [@ EXCEPT !.i = @ + 1,
                                   !.pending = IF get_raises(game) THEN Collected(p)
                                               ELSE Collected(p) \cup values]]
    /\ UNCHANGED <<schedule, gameLogs, sportsbook_odds, data_readiness, tableVars,
                   batch_runs, batch_execution_steps, handed, inserted, readinessLog>>
    /\ UNCHANGED <<featVars, svcVars, weekVars, anchor>>

\* the upsert of all_odds_values after the loop, then complete_step
FinishOdds(p) ==
    /\ Me(p).pc = "odds_body"
    /\ Me(p).week > 18 \/ Me(p).i = Len(GamesOfWeek(Me(p).year, Me(p).week))
    /\ sportsbook_odds' = UpsertOdds(Collected(p))
    /\ StepSucceeds(p, [Me(p) EXCEPT !.i = 0, !.pending = <<>>], "odds_synced",
                    Cardinality(Collected(p)), "exit")
    /\ UNCHANGED <<schedule, gameLogs, data_readiness, tableVars, faults, handed,
                   inserted, readinessLog>>
    /\ UNCHANGED <<featVars, svcVars, weekVars, anchor>>

\* the odds an earlier sync stored for the games of week 3, at another price
StoredOdds ==
    { [v EXCEPT !.anytime_td_odds = 120] :
        v \in { x \in UNION { get_betting_odds(GameId(NFL_SEASON_YEAR, "reg", 3, n),
                                                NFL_SEASON_YEAR, 3) : n \in 1..MaxGames } :
                  x.player_id \in valid_player_ids } }

\* the schedule of weeks 1 to 3 is stored, with or without odds for week 3;
\* the database does not fail
InitFetch ==
    /\ schedule = InitialSchedule \cup
                  { Schedule(GameId(NFL_SEASON_YEAR, "reg", 3, n), NFL_SEASON_YEAR, 3, "reg") :
                      n \in 1..MaxGames }
    /\ gameLogs = InitialGameLogs
    /\ sportsbook_odds \in {{}, StoredOdds}
    /\ data_readiness = {}
    /\ predictions = {}
    /\ nextId = 1
    /\ batch_runs = <<>>
    /\ batch_execution_steps = <<>>
    /\ proc = [p \in Procs |-> IdleProc]
    /\ handed = {}
    /\ inserted = <<>>
    /\ readinessLog = <<>>
    /\ \E failing \in [1..MaxGames -> 0..MaxTransientFailures] :
          faults = [badPlayers |-> {}, badGames |-> {}, step |-> "none",
                    failing |-> failing, requests |-> <<>>]
    /\ FeatIdle
    /\ SvcIdle
    /\ WeekIdle

FetchNext ==
    \E p \in {1} :
        \/ Main(p, FetchConfigs)
        \/ StartSchedule(p)
        \/ RunSchedule(p)
        \/ StartGameLogs(p)
        \/ FetchBoxScore(p)
        \/ FinishGameLogs(p)
        \/ StartPredictions(p)
        \/ StartOdds(p)
        \/ FetchOdds(p)
        \/ FinishOdds(p)
        \/ Exit(p)

SpecFetch == InitFetch /\ [][FetchNext]_vars

\* the requests of a run for one item
RequestsFor(run_id, endpoint, game_id) ==
    SelectSeq(faults.requests, LAMBDA r : /\ r.run_id = run_id
                                          /\ r.endpoint = endpoint
                                          /\ r.game_id = game_id)

\* a run has left the tracker
RunEnded(p) == Me(p).pc = "done" /\ Me(p).run_id # 0

\* C34: a transient provider failure for one item is retried a bounded
\* number of times before the item is counted as failed, and it never
\* makes the batch run end failed.
C34_TransientFailureRetried ==
    RunEnded(1) =>
        /\ \A k \in 1..Len(faults.requests) :
              LET r == faults.requests[k]
              IN  (r.run_id = Me(1).run_id /\ r.status = "error") =>
                     Len(RequestsFor(r.run_id, r.endpoint, r.game_id)) > 1
        /\ batch_runs[Me(1).run_id].status # "failed"

\* the part of C34 the code satisfies: a request that fails leaves its item
\* out and the run does not end failed
C34_FailureNotFatal ==
    RunEnded(1) => batch_runs[Me(1).run_id].status \in {"success", "partial"}

(***************************************************************************)
(* What the predictions step reports.                                      *)
(***************************************************************************)
\* the finished predictions steps of a run
PredictionSteps(r) ==
    { k \in StepsOf(r) : /\ batch_execution_steps[k].step_name = "predictions"
                         /\ batch_execution_steps[k].status = "success" }

\* C35: when a predictions step finishes, its records_processed and the
\* run's predictions_generated equal the number of Prediction rows the step
\* committed, whatever happened in the per-player loop.
C35_ReportedEqualsCommitted ==
    \A r \in 1..Len(batch_runs) :
        \A k \in PredictionSteps(r) :
            /\ batch_execution_steps[k].records_processed =
                  Cardinality(inserted[r].predictions)
            /\ batch_runs[r].predictions_generated = Cardinality(inserted[r].predictions)

\* with no player failing in the loop the reported numbers are the
\* committed ones
C35_ReportedWithoutFailures ==
    faults.badPlayers = {} =>
        \A r \in 1..Len(batch_runs) :
            \A k \in PredictionSteps(r) :
                /\ batch_execution_steps[k].records_processed =
                      Cardinality(inserted[r].predictions)
                /\ batch_runs[r].predictions_generated =
                      Cardinality(inserted[r].predictions)

(***************************************************************************)
(* The season type of what a run fetches and stores.  A game id carries    *)
(* the season type the provider lists the game under.                      *)
(***************************************************************************)
SeasonTypeOf(game_id) == game_id[2]

\* the rows of run r are of the run's season type
OfRunSeasonType(r) ==
    /\ \A g \in inserted[r].schedule :
          /\ g.season_type = batch_runs[r].season_type
          /\ SeasonTypeOf(g.game_id) = batch_runs[r].season_type
    /\ \A l \in inserted[r].game_logs :
          SeasonTypeOf(l.game_id) = batch_runs[r].season_type
    /\ batch_runs[r].odds_synced > 0 =>
          \A o \in sportsbook_odds :
              (o.season_year = batch_runs[r].season_year /\ o.week = batch_runs[r].week)
                  => SeasonTypeOf(o.game_id) = batch_runs[r].season_type

\* C36: every provider request and schedule selection of a step of a run
\* anchored to (season, week, season_type) is restricted to games of that
\* season type: the schedule step requests it, the game_logs step stores no
\* log of a game of another season type, and the odds step fetches no odds
\* for such a game.
C36_StepsOfRunSeasonType ==
    \A r \in 1..Len(batch_runs) : OfRunSeasonType(r)

\* the part of C36 the code satisfies: a regular-season run over a schedule
\* that holds no playoff game of the same week numbers
C36_RegularRunsOfRegularSchedule ==
    \A r \in 1..Len(batch_runs) :
        (/\ batch_runs[r].season_type = "reg"
         /\ \A g \in schedule : g.season_type = "reg") => OfRunSeasonType(r)

(***************************************************************************)
(* The order of the resolver's answers over the days of a fixed schedule.  *)
(***************************************************************************)
\* the regular season of a year comes before its post season
PhaseRank(season_type) == IF season_type = "post" THEN 1 ELSE 0

\* a is an earlier season, phase or week than b
EarlierThan(a, b) ==
    \/ a.year < b.year
    \/ a.year = b.year /\ PhaseRank(a.season_type) < PhaseRank(b.season_type)
    \/ a.year = b.year /\ a.season_type = b.season_type /\ a.week < b.week

\* what the resolver can return at noon of the day e over today's schedule
ResolvedOn(e) == get_current_nfl_week_from_schedule(wkSchedule, e * Day + 43200)

\* C37: for a fixed schedule, the value resolved on a later day is never an
\* earlier season, phase or week than the value resolved on an earlier day.
C37_NeverMovesBackwards ==
    (Resolved /\ ~wkDown) =>
        \A e \in 0..Today : \A earlier \in ResolvedOn(e) : ~EarlierThan(Result, earlier)

\* the days up to today on which the resolver answers from the latest game
\* of the schedule although that game is still to come
AnsweredFromFutureGame ==
    { e \in 0..Today : /\ Upcoming(wkSchedule, e) = {}
                       /\ \E g \in wkSchedule : g.game_date > Ymd(e)
                       /\ (weekday(e) = 0 => PastGames(e) = {}) }

\* the Mondays up to today answered with the week of the latest past game
MondayLookedBack ==
    { e \in 0..Today : weekday(e) = 0 /\ GamesOn(e) = {} /\ PastGames(e) # {} }

\* the part of C37 the code satisfies: the answers never move backwards
\* over days on which no answer was derived from a game still to come and
\* no Monday was answered with the week of a past game
C37_MonotoneOtherwise ==
    (Resolved /\ ~wkDown /\ AnsweredFromFutureGame = {} /\ MondayLookedBack = {}) =>
        \A e \in 0..Today : \A earlier \in ResolvedOn(e) : ~EarlierThan(Result, earlier)

(***************************************************************************)
(* backfill_complete.py: one BatchTracker around three steps, for one      *)
(* week.  Its steps have no try/except around them: an exception raised   *)
(* in a step leaves the `async with` block at once.                        *)
(***************************************************************************)
BackfillWeeks == 1..2

\* the players whose rows backfill_predictions_for_week commits: a commit
\* after every CommitEvery generated rows, a rollback when a player raises
RECURSIVE BackfillCommits(_, _, _, _)
BackfillCommits(todo, generated, pending, committed) ==
    IF todo = <<>>
    THEN committed \cup pending
    ELSE IF ScoringRaises(Head(todo))
    THEN BackfillCommits(Tail(todo), generated, {}, committed)
    ELSE IF (generated + 1) % CommitEvery = 0
    THEN BackfillCommits(Tail(todo), generated + 1, {},
                         committed \cup pending \cup {Head(todo)})
    ELSE BackfillCommits(Tail(todo), generated + 1, pending \cup {Head(todo)}, committed)

\* an exception raised between start_step and complete_step: no fail_step,
\* the tracker's current step stays as start_step wrote it
StepEscapes(p, started, message) ==
    /\ batch_execution_steps' = started
    /\ proc' = [proc EXCEPT ![p] = [@ EXCEPT !.current_step = Len(started),
                                           !.exc = message, !.pc = "exit"]]
    /\ UNCHANGED batch_runs

\* increment_metric, then complete_step(status='success', records_processed=n)
StepCompletes(p, started, metric, n, next_pc) ==
    /\ batch_runs' = [batch_runs EXCEPT ![Me(p).run_id] = increment_metric(@, metric, n)]
    /\ batch_execution_steps' = complete_step(started, Len(started), "success", n, Null)
    /\ proc' = [proc EXCEPT ![p] = [@ EXCEPT !.current_step = 0, !.pc = next_pc]]

\* backfill_complete.main with one week to backfill: BatchTracker.__aenter__
BackfillMain(p) ==
    /\ Me(p).script = "none"
    /\ Me(p).pc = "idle"
    /\ \E week \in BackfillWeeks :
          /\ batch_runs' =
                Append(batch_runs,
                       BatchRun(Len(batch_runs) + 1, "complete_backfill", "1_weeks",
                                NFL_SEASON_YEAR, week, "reg"))
          /\ proc' = [proc EXCEPT ![p] =
                        [IdleProc EXCEPT !.script = "backfill_complete",
                                         !.pc = "backfill_game_logs",
                                         !.mode = "1_weeks", !.week = week,
                                         !.run_id = Len(batch_runs) + 1, !.runs = 1]]
    /\ inserted' = Append(inserted, [schedule |-> {}, game_logs |-> {}, predictions |-> {}])
    /\ UNCHANGED <<schedule, gameLogs, sportsbook_odds, data_readiness, tableVars,
                   batch_execution_steps, faults, handed, readinessLog>>
    /\ UNCHANGED <<featVars, svcVars, weekVars, anchor>>

\* STEP 1: start_step, backfill_game_logs_for_week (the box scores of the
\* week itself), complete_step; the select of the week's games can raise
BackfillGameLogs(p) ==
    /\ Me(p).pc = "backfill_game_logs"
    /\ LET started == start_step(batch_execution_steps, Me(p).current_step,
                                 Me(p).run_id, "game_logs", 1)
           added == update_game_logs_from_box_scores(Me(p).year, Me(p).week + 1)
       IN  IF faults.step = "game_logs"
           THEN /\ StepEscapes(p, started, "game_logs: database error")
                /\ UNCHANGED <<gameLogs, inserted>>
           ELSE /\ gameLogs' = gameLogs \cup added
                /\ inserted' = [inserted EXCEPT ![Me(p).run_id].game_logs = @ \cup added]
                /\ StepCompletes(p, started, "game_logs_added", Cardinality(added),
                                 "backfill_predictions")
    /\ UNCHANGED <<schedule, sportsbook_odds, data_readiness, tableVars, faults, handed,
                   readinessLog>>
    /\ UNCHANGED <<featVars, svcVars, weekVars, anchor>>

\* STEP 2: start_step, backfill_predictions_for_week, complete_step; the
\* select of the players can raise.  generated counts every db.add().
BackfillPredictions(p) ==
    /\ Me(p).pc = "backfill_predictions"
    /\ LET started == start_step(batch_execution_steps, Me(p).current_step,
                                 Me(p).run_id, "predictions", 2)
           todo == players_to_predict(Me(p).year, Me(p).week)
           generated == Cardinality({ k \in 1..Len(todo) : ~ScoringRaises(todo[k]) })
           added == { PredictionFor(player, Me(p).year, Me(p).week) :
                        player \in BackfillCommits(todo, 0, {}, {}) }
       IN  IF faults.step = "predictions"
           THEN /\ StepEscapes(p, started, "predictions: database error")
                /\ UNCHANGED <<predictions, inserted>>
           ELSE /\ predictions' = predictions \cup added
                /\ inserted' = [inserted EXCEPT ![Me(p).run_id].predictions = @ \cup added]
                /\ StepCompletes(p, started, "predictions_generated", generated,
                                 "backfill_odds")
    /\ UNCHANGED <<schedule, gameLogs, sportsbook_odds, data_readiness, nextId, sess,
                   writeLog, overwrites, firstStored, calls, faults, handed, readinessLog>>
    /\ UNCHANGED <<featVars, svcVars, weekVars, anchor>>

\* STEP 3: start_step, backfill_odds_for_week, complete_step; the select of
\* the week's games can raise
BackfillOdds(p) ==
    /\ Me(p).pc = "backfill_odds"
    /\ LET started == start_step(batch_execution_steps, Me(p).current_step,
                                 Me(p).run_id, "odds", 3)
           values == all_odds_values(Me(p).year, Me(p).week)
       IN  IF faults.step = "odds"
           THEN /\ StepEscapes(p, started, "odds: database error")
                /\ UNCHANGED sportsbook_odds
           ELSE /\ sportsbook_odds' = UpsertOdds(values)
                /\ StepCompletes(p, started, "odds_synced", Cardinality(values), "exit")
    /\ UNCHANGED <<schedule, gameLogs, data_readiness, tableVars, faults, handed,
                   inserted, readinessLog>>
    /\ UNCHANGED <<featVars, svcVars, weekVars, anchor>>

BackfillNext ==
    \E p \in {1} :
        \/ BackfillMain(p)
        \/ BackfillGameLogs(p)
        \/ BackfillPredictions(p)
        \/ BackfillOdds(p)
        \/ Exit(p)

SpecBackfill == InitBatch /\ [][BackfillNext]_vars

Ended == {"success", "partial", "failed"}

\* C38: a BatchRun that has reached success, partial or failed has no
\* BatchStep left in status running (backfill_complete.py)
C38_NoStepLeftRunning ==
    \A r \in 1..Len(batch_runs) :
        batch_runs[r].status \in Ended =>
            \A k \in StepsOf(r) : batch_execution_steps[k].status # "running"

\* what the code does keep: a run that ends success or partial has no
\* running step, and a failed run has at most its last step running
C38_OnlyFailedRunKeepsLastStep ==
    \A r \in 1..Len(batch_runs) :
        batch_runs[r].status \in Ended =>
            \A k \in StepsOf(r) :
                batch_execution_steps[k].status = "running" =>
                    /\ batch_runs[r].status = "failed"
                    /\ \A j \in StepsOf(r) : j <= k

(***************************************************************************)
(* The run-batch-update admin action (app/api/admin.py).  It starts two    *)
(* child processes and returns: process 1 is the Popen of update_weekly.py *)
(* (update_process), process 2 the Popen of the shell line                 *)
(* "update_weekly.py && generate_predictions.py" (process).                *)
(***************************************************************************)
\* trigger_batch_update with week and year given: both Popen calls
trigger_batch_update ==
    /\ \A p \in Procs : Me(p).script = "none" /\ Me(p).pc = "idle"
    /\ \E cfg \in RaceConfigs :
          proc' = [p \in Procs |->
                     [IdleProc EXCEPT !.script = "update_weekly", !.pc = "launched",
                                      !.mode = cfg.mode, !.year = cfg.year,
                                      !.week = cfg.week,
                                      !.season_type = cfg.season_type]]
    /\ UNCHANGED <<schedule, gameLogs, sportsbook_odds, data_readiness, tableVars,
                   batch_runs, batch_execution_steps, faults, handed, inserted,
                   readinessLog>>
    /\ UNCHANGED <<featVars, svcVars, weekVars, anchor>>

\* update_weekly.main in a launched child: BatchTracker.__aenter__
ChildMain(p) ==
    /\ Me(p).script = "update_weekly"
    /\ Me(p).pc = "launched"
    /\ batch_runs' =
          Append(batch_runs,
                 BatchRun(Len(batch_runs) + 1, "weekly_update", Me(p).mode, Me(p).year,
                          Me(p).week, Me(p).season_type))
    /\ proc' = [proc EXCEPT ![p] = [@ EXCEPT !.pc = "schedule",
                                           !.run_id = Len(batch_runs) + 1,
                                           !.runs = 1]]
    /\ inserted' = Append(inserted, [schedule |-> {}, game_logs |-> {}, predictions |-> {}])
    /\ UNCHANGED <<schedule, gameLogs, sportsbook_odds, data_readiness, tableVars,
                   batch_execution_steps, faults, handed, readinessLog>>
    /\ UNCHANGED <<featVars, svcVars, weekVars, anchor>>

\* the shell's `&&`: generate_predictions.py starts once the update_weekly.py
\* of the same line has exited with status 0
ChainedPredictions(p) ==
    /\ Me(p).script = "update_weekly"
    /\ Me(p).pc = "done"
    /\ Me(p).exc = Null
    /\ LET todo == players_to_predict(Me(p).year, Me(p).week)
           started == [IdleProc EXCEPT !.script = "generate_predictions",
                                       !.year = Me(p).year, !.week = Me(p).week,
                                       !.runs = 1]
       IN  IF todo = <<>>
           THEN /\ proc' = [proc EXCEPT ![p] = [started EXCEPT !.pc = "done"]]
                /\ UNCHANGED <<batch_runs, inserted>>
           ELSE /\ batch_runs' =
                      Append(batch_runs,
                             BatchRun(Len(batch_runs) + 1, "prediction_generation",
                                      "incremental", Me(p).year, Me(p).week, "reg"))
                /\ inserted' = Append(inserted, [schedule |-> {}, game_logs |-> {},
                                                 predictions |-> {}])
                /\ proc' = [proc EXCEPT ![p] =
                              [started EXCEPT !.pc = "pred_loop", !.todo = todo,
                                              !.skipped = Len(players_table) - Len(todo),
                                              !.run_id = Len(batch_runs) + 1]]
    /\ UNCHANGED <<schedule, gameLogs, sportsbook_odds, data_readiness, tableVars,
                   batch_execution_steps, faults, handed, readinessLog>>
    /\ UNCHANGED <<featVars, svcVars, weekVars, anchor>>

\* one call of the admin action; the children run side by side
AdminNext ==
    \/ trigger_batch_update
    \/ ChainedPredictions(2)
    \/ \E p \in Procs :
          \/ ChildMain(p)
          \/ StartSchedule(p)
          \/ RunSchedule(p)
          \/ StartGameLogs(p)
          \/ RunGameLogs(p)
          \/ StartPredictions(p)
          \/ SelectPlayers(p)
          \/ PredictPlayer(p)
          \/ FinishPredictions(p)
          \/ StartOdds(p)
          \/ RunOdds(p)
          \/ Exit(p)

\* the database of InitTables, with no fault in the provider or the database
InitAdmin ==
    /\ InitTables
    /\ faults = [badPlayers |-> {}, badGames |-> {}, step |-> "none"]
    /\ FeatIdle
    /\ SvcIdle
    /\ WeekIdle

SpecAdmin == InitAdmin /\ [][AdminNext]_vars

WeeklyRuns == { r \in 1..Len(batch_runs) : batch_runs[r].batch_type = "weekly_update" }

\* C39: one call of the run-batch-update action starts update_weekly.py
\* once, and no two update_weekly runs of the same week execute at the same
\* time
C39_OneUpdateWeeklyAtATime ==
    /\ Cardinality(WeeklyRuns) <= 1
    /\ \A r, s \in WeeklyRuns :
          (/\ batch_runs[r].status = "running" /\ batch_runs[s].status = "running"
           /\ batch_runs[r].season_year = batch_runs[s].season_year
           /\ batch_runs[r].week = batch_runs[s].week) => r = s

\* what the code does keep: generate_predictions.py starts only after the
\* update_weekly.py of its own shell line has ended without an error
C39_PredictionsAfterChainedUpdate ==
    Me(2).script = "generate_predictions" =>
        \E r \in WeeklyRuns : batch_runs[r].status \in {"success", "partial"}

\* the keys of all_odds_values when the upsert runs
FetchedKeys ==
    IF Me(1).pc = "odds_body" THEN { OddsKey(v) : v \in Collected(1) } ELSE {}

\* C40: in the odds step of update_weekly every stored odds row is still
\* present afterwards, unchanged unless new odds were fetched for its
\* (player_id, game_id, sportsbook) key, and only rows with a fetched key
\* are inserted or updated, whichever fetches failed
C40_StoredOddsKept ==
    [][/\ \A o \in sportsbook_odds :
             IF OddsKey(o) \in FetchedKeys
             THEN \E n \in sportsbook_odds' : OddsKey(n) = OddsKey(o)
             ELSE o \in sportsbook_odds'
       /\ \A n \in sportsbook_odds' :
             n \in sportsbook_odds \/ OddsKey(n) \in FetchedKeys]_vars

\* an odds step has ended after the fetch of one game failed and that of
\* another succeeded: the stored rows of the first are kept at their price,
\* the rows of the second carry the fetched price
C40_Witness ==
    /\ Me(1).pc = "done"
    /\ \E k \in StepsOf(Me(1).run_id) :
          /\ batch_execution_steps[k].step_name = "odds"
          /\ batch_execution_steps[k].status = "success"
    /\ \E o, n \in sportsbook_odds :
          /\ o.week = 3 /\ o.anytime_td_odds = 120
          /\ n.week = 3 /\ n.anytime_td_odds = 150
          /\ o.game_id # n.game_id
    /\ \A o \in StoredOdds : \E n \in sportsbook_odds : OddsKey(n) = OddsKey(o)

====
